---- MODULE Spec2Model ----
(***************************************************************************)
(* Model of the detection dashboard (src/app/label.tsx, UATDashboard):     *)
(* upload, PDF rasterisation, detection requests, page navigation, zoom,   *)
(* canvas drawing and click hit-testing, with every await boundary of the  *)
(* code as a separate step.                                                *)
(*                                                                         *)
(* Numbers the code keeps as doubles are exact rationals <<num, den>>      *)
(* here; zoom is counted in steps of 0.25 (zoom = 4 is 1.0).  An id        *)
(* `box_${n}` is the integer n (the formatting is injective).              *)
(***************************************************************************)
EXTENDS Integers, Sequences, FiniteSets, TLC

\* ---------------------------------------------------------------- bounds
\* The upload and detection slice (SpecDetect), the viewing slice (SpecView)
\* and the coordinate mapper on its own (SpecMap).
MaxId == 3          \* ids handed out by generateId in one run
MaxUploads == 2     \* uploads accepted by processFile in one run
MaxInFlight == 2    \* uploads whose asynchronous part is still running
MaxPending == 1     \* page-image load callbacks of drawCanvas not yet run
ViewMaxId == 3
ViewMaxUploads == 1
ViewMaxInFlight == 1
ViewMaxPending == 2
UpMaxId == 3
UpMaxUploads == 1
UpMaxInFlight == 1
UpMaxPending == 1
SaveMaxId == 2
SaveMaxUploads == 1
SaveMaxInFlight == 1
SaveMaxPending == 1
MaxCalls == 3       \* calls the save-result route handles in a run
PollMaxPolls == 2   \* status checks in flight at once in the polling slice
MaxUrls == 3        \* values backendUrl takes in a run
ZoomMaxUploads == 2 \* uploads accepted in the zoom slice
MaxPan == 2         \* largest pan offset of the popup, per axis
MaxPolls == 1       \* checkBackendStatus fetches in flight at once
MaxDim == 3         \* largest dimension drawn for the coordinate mapper
GuardMaxUploads == 2   \* uploads in the run with an image without natural size
PagesMaxUploads == 2   \* uploads in the run that pages through PDFs
PagesMaxId == 3        \* ids handed out in that run
StoreMaxCalls == 4     \* calls of the route in the run of the route on its own
TableMaxCalls == 4     \* calls of the route in the run of the results table

\* ------------------------------------------------------ program constants
MAX_FILE_SIZE_lifted == 100 * 1024
MAX_FILE_SIZE == 100      \* in MB
PollInterval == 30        \* seconds
ZoomStep == 1             \* 0.25
ZoomMin == 1              \* 0.25
ZoomMax == 12             \* 3.0
ZoomDefault == 4          \* 1.0
PopupZoomStep == 5        \* 0.25, in steps of 0.05
PopupWheelStep == 2       \* 0.1
PopupZoomMin == 5         \* 0.25
PopupZoomMax == 100       \* 5
PopupZoomDefault == 20    \* 1
PDFScale == 2             \* page.getViewport({ scale: 2.0 })
DefaultCanvasW == 300     \* width of a canvas element never drawn to
DefaultCanvasH == 150
FallbackPageW == 595      \* result.pages[0].image_width || 595
FallbackPageH == 842

\* ------------------------------------------------------------- rationals
Rat(n, d) == <<n, d>>
RMul(a, b) == <<a[1] * b[1], a[2] * b[2]>>
RInt(n) == <<n, 1>>
\* a <= b for rationals with positive denominators
RLeq(a, b) == a[1] * b[2] <= b[1] * a[2]
REq(a, b) == a[1] * b[2] = b[1] * a[2]

\* ------------------------------------------------------------ file inputs
\* A File as the browser hands it over: name, MIME type, size (MB) and, for
\* the content, the natural pixel size of an image or the point size of each
\* PDF page.
FileA == [name |-> "a.png", type |-> "image/png", size |-> 1,
          dims |-> << <<8, 6>> >>]
FileB == [name |-> "b.pdf", type |-> "application/pdf", size |-> 100,
          dims |-> << <<4, 3>>, <<3, 4>> >>]
FileC == [name |-> "c.pdf", type |-> "", size |-> 1,
          dims |-> << <<3, 4>> >>]
FileD == [name |-> "d.txt", type |-> "text/plain", size |-> 1,
          dims |-> << >>]
FileE == [name |-> "e.png", type |-> "image/png", size |-> 101,
          dims |-> << <<8, 6>> >>]
Files == {FileA, FileB, FileC, FileD, FileE}
\* an image that decodes without an intrinsic size (an SVG with no width and
\* height): its load event fires with naturalWidth and naturalHeight 0
FileZ == [name |-> "z.svg", type |-> "image/svg+xml", size |-> 1,
          dims |-> << <<0, 0>> >>]

NoFile == [name |-> "", type |-> "", size |-> 0, dims |-> << >>]
NoImage == [file |-> "", page |-> 0]
NoBox == 0

\* file.type.startsWith('image/')
isImage(file) == file.type \in {"image/png", "image/jpeg", "image/svg+xml"}
\* file.type === 'application/pdf' || file.name.toLowerCase().endsWith('.pdf')
isPDFFile(file) == file.type = "application/pdf" \/ file.name \in {"b.pdf", "c.pdf"}

\* ------------------------------------------------------------ detections
CLASS_COLORS == [Text |-> "#a855f7", Title |-> "#22c55e", Table |-> "#eab308"]
getClassColor(className) ==
  IF className \in DOMAIN CLASS_COLORS THEN CLASS_COLORS[className] ELSE "#6b7280"

\* What the backend can report for one page: confidence in percent, bbox in
\* natural pixels of the image the backend was sent.
DetTitle == [class_id |-> 1, class_name |-> "Title", confidence |-> 90,
             bbox |-> <<1, 1, 4, 2>>]
DetStamp == [class_id |-> 7, class_name |-> "Stamp", confidence |-> 40,
             bbox |-> <<4, 2, 3, 3>>]
PageDetections == { << >>, <<DetTitle>>, <<DetStamp, DetTitle>>, <<DetTitle, DetStamp>> }


\* Natural pixel size of the raster behind an image URL: the image itself,
\* or page k of a PDF rendered at PDFScale.
FileByName(n) == CHOOSE f \in Files \cup {FileZ} : f.name = n
NaturalDims(url) ==
  LET f == FileByName(url.file)
  IN IF url.page = 0 THEN f.dims[1]
     ELSE <<PDFScale * f.dims[url.page][1], PDFScale * f.dims[url.page][2]>>

\* ----------------------------------------------------------------- state
VARIABLES
  currentImage,      \* URL of the displayed image, or NoImage
  currentImageFile,  \* the uploaded File, or NoFile
  boxes,             \* sequence of BoundingBox
  selectedBoxId,     \* id or NoBox
  imageNaturalSize,  \* [width, height]
  isDetecting,
  error,
  backendStatus,
  imageLoaded,
  isPDF,
  totalPages,
  currentPage,
  pdfPages,          \* sequence of PDFPageImage
  isConvertingPDF,
  pdfJsLoaded,
  zoom,
  idCounter,         \* module-level counter of generateId
  detectReq,         \* the detect request in flight: the File sent, or NoFile
  conversions,       \* convertPDFToImages calls not yet settled (Files)
  imageLoads,        \* image uploads whose reader/decoder/timer is pending
  polls,             \* checkBackendStatus fetches in flight
  pollTimer,         \* number of setInterval timers of the status poll that are armed
  imgEl,             \* the hidden <img ref={imageRef}>: [mounted, src, complete]
  canvas,            \* the <canvas ref={canvasRef}> and what is painted on it
  pendingDraws,      \* img.onload callbacks of drawCanvas (PDF mode) not yet run
  uploads,           \* history: number of uploads processFile has accepted
  issued,            \* history: every id generateId has returned, in order
  lastOp,            \* history: the click or detection response the last step was, if it was one
  mapper,            \* inputs and outputs of the coordinate mapper on its own
  isSaving,
  saveMessage,       \* which message the save banner shows, or "none"
  savedResultsCount,
  labeledImages,     \* sequence of the imageName of each annotation kept locally
  saveReq,           \* the POST of saveAnnotation in flight, with what it closed over
  clearReq,          \* the DELETE of clearAllResults in flight
  countReq,          \* the GET of fetchSavedResultsCount in flight
  resultFile,        \* result.json on the server's disk
  api,               \* history: the last call the route handled, and the one before
  mounted,           \* FALSE once UATDashboard has been unmounted
  backendUrl,        \* which backend URL the state holds (1 is the initial one)
  popup,             \* AnnotationPopup of the results page: zoom, pan, panning
  variant,           \* the route with a fallback path: RESULT_FILE, both files, last call
  table,             \* ResultsTable: the list shown, the selected ids, its request
  scn                \* the slice explored: its input sets and bounds (never changes)

reactVars == <<currentImage, currentImageFile, boxes, selectedBoxId,
               imageNaturalSize, isDetecting, error, backendStatus,
               imageLoaded, isPDF, totalPages, currentPage, pdfPages,
               isConvertingPDF, pdfJsLoaded, zoom>>
asyncVars == <<detectReq, conversions, imageLoads, polls, pollTimer>>
domVars == <<imgEl, canvas, pendingDraws>>
saveVars == <<isSaving, saveMessage, savedResultsCount, labeledImages,
              saveReq, clearReq, countReq, resultFile, api>>
viewVars == <<mounted, backendUrl, popup>>
storeVars == <<variant, table>>
vars == <<reactVars, idCounter, asyncVars, domVars, uploads, issued, lastOp, mapper,
          saveVars, viewVars, storeVars, scn>>

NoOp == [op |-> "other"]
NoImgEl == [mounted |-> FALSE, src |-> NoImage, complete |-> FALSE]
NoCanvas == [mounted |-> FALSE, width |-> 0, height |-> 0, painted |-> FALSE,
             img |-> NoImage, nw |-> 0, nh |-> 0, drawn |-> << >>, sel |-> NoBox]
BlankCanvas == [mounted |-> TRUE, width |-> DefaultCanvasW, height |-> DefaultCanvasH,
                painted |-> FALSE, img |-> NoImage, nw |-> 0, nh |-> 0,
                drawn |-> << >>, sel |-> NoBox]
\* no request: the shape of a request of the dashboard to /api/save-result
NoReq == [stage |-> "none", imageName |-> "", labeled |-> << >>,
          status |-> 0, error |-> "", totalResults |-> 0]
\* result.json before the route has ever written it
MissingFile == [kind |-> "missing", results |-> << >>]
NoCall == [seq |-> 0, method |-> "none", by |-> "none", imageName |-> "", status |-> 0,
           error |-> "", results |-> << >>, wrote |-> FALSE,
           prev |-> "none", wiped |-> {}]
NoMapper == [nw |-> 0, nh |-> 0, dw |-> 0, dh |-> 0, p |-> <<0, 0>>,
             stage |-> "idle", disp |-> <<RInt(0), RInt(0)>>, back |-> <<RInt(0), RInt(0)>>]

\* the route with a fallback path after the module has loaded with the
\* preferred directory writable and no result file on disk
NoVariantCall == [method |-> "none", imageName |-> "", status |-> 0, results |-> << >>,
                  totalResults |-> 0]
VariantInit == [path |-> "preferred", preferred |-> MissingFile, fallback |-> MissingFile,
                calls |-> 0, call |-> NoVariantCall]
\* ResultsTable before its first fetch has answered
\* `ids` is the selectedIds the running deleteSelected closed over; `status`
\* the status of the answer; `before` the records stored when the route
\* handled the request
TableInit == [results |-> << >>, selectedIds |-> {}, stage |-> "none", ids |-> {},
              status |-> 0, answer |-> << >>, before |-> << >>]

\* AnnotationPopup as it opens; its zoom is counted in steps of 0.05
PopupInit == [zoom |-> PopupZoomDefault, pan |-> <<0, 0>>, isPanning |-> FALSE,
              startPan |-> <<0, 0>>, op |-> "open"]

\* The state after UATDashboard has mounted, for a run within the bounds s
SessionInit(s) ==
  /\ scn = s
  /\ currentImage = NoImage
  /\ currentImageFile = NoFile
  /\ boxes = << >>
  /\ selectedBoxId = NoBox
  /\ imageNaturalSize = [width |-> 0, height |-> 0]
  /\ isDetecting = FALSE
  /\ error = "none"
  /\ backendStatus = "checking"
  /\ imageLoaded = FALSE
  /\ isPDF = FALSE
  /\ totalPages = 1
  /\ currentPage = 1
  /\ pdfPages = << >>
  /\ isConvertingPDF = FALSE
  /\ pdfJsLoaded = FALSE
  /\ zoom = ZoomDefault
  /\ idCounter = 0
  /\ detectReq = NoFile
  /\ conversions = << >>
  /\ imageLoads = << >>
  /\ polls = 1            \* the mount effect has called checkBackendStatus
  /\ pollTimer = 1        \* and armed setInterval(checkBackendStatus, 30000)
  /\ mounted = TRUE
  /\ backendUrl = 1
  /\ popup = PopupInit
  /\ imgEl = NoImgEl
  /\ canvas = NoCanvas
  /\ pendingDraws = {}
  /\ uploads = 0
  /\ issued = << >>
  /\ lastOp = NoOp
  /\ isSaving = FALSE
  /\ saveMessage = "none"
  /\ savedResultsCount = 0
  /\ labeledImages = << >>
  /\ saveReq = NoReq
  /\ clearReq = NoReq
  /\ countReq = [NoReq EXCEPT !.stage = "sent"]  \* the mount effect has called fetchSavedResultsCount
  /\ api = NoCall
  /\ variant = VariantInit
  /\ table = TableInit

InitOf(s) == SessionInit(s) /\ mapper = NoMapper /\ resultFile = MissingFile

\* files: the Files the user picks from; bodies: which backend bodies are drawn
FullScn == [files |-> Files, uploads |-> MaxUploads, ids |-> MaxId,
            pending |-> MaxPending, inflight |-> MaxInFlight, bodies |-> "all",
            record |-> FALSE, calls |-> 0, polls |-> MaxPolls, urls |-> 1, untyped |-> FALSE]
ViewScn == [files |-> {FileA, FileB}, uploads |-> ViewMaxUploads, ids |-> ViewMaxId,
            pending |-> ViewMaxPending, inflight |-> ViewMaxInFlight, bodies |-> "one",
            record |-> FALSE, calls |-> 0, polls |-> MaxPolls, urls |-> 1, untyped |-> FALSE]
UploadScn == [files |-> Files, uploads |-> UpMaxUploads, ids |-> UpMaxId,
              pending |-> UpMaxPending, inflight |-> UpMaxInFlight, bodies |-> "one",
              record |-> TRUE, calls |-> 0, polls |-> MaxPolls, urls |-> 1, untyped |-> FALSE]
\* one image, annotated and saved against a store other clients also write
SaveScn == [files |-> {FileA}, uploads |-> SaveMaxUploads, ids |-> SaveMaxId,
            pending |-> SaveMaxPending, inflight |-> SaveMaxInFlight, bodies |-> "one",
            record |-> TRUE, calls |-> MaxCalls, polls |-> MaxPolls, urls |-> 1, untyped |-> FALSE]
\* no file: the status poll, its timer, the URL and the unmount
PollScn == [files |-> {FileA}, uploads |-> 0, ids |-> 1, pending |-> 1, inflight |-> 1,
            bodies |-> "one", record |-> TRUE, calls |-> 0, polls |-> PollMaxPolls,
            urls |-> MaxUrls, untyped |-> FALSE]
\* one image uploaded again and again between zooms
ZoomScn == [files |-> {FileA}, uploads |-> ZoomMaxUploads, ids |-> 1, pending |-> 1,
            inflight |-> 1, bodies |-> "one", record |-> TRUE, calls |-> 0,
            polls |-> MaxPolls, urls |-> 1, untyped |-> FALSE]
\* an image without intrinsic size next to an ordinary one
GuardScn == [files |-> {FileA, FileZ}, uploads |-> GuardMaxUploads, ids |-> 2,
             pending |-> 1, inflight |-> 1, bodies |-> "one", record |-> TRUE,
             calls |-> 0, polls |-> MaxPolls, urls |-> 1, untyped |-> FALSE]
\* two PDFs of different length, uploaded one after the other and paged
PagesScn == [files |-> {FileB, FileC}, uploads |-> PagesMaxUploads, ids |-> PagesMaxId,
             pending |-> 1, inflight |-> 1, bodies |-> "one", record |-> FALSE,
             calls |-> 0, polls |-> MaxPolls, urls |-> 1, untyped |-> FALSE]
\* the results table next to clients that save results
TableScn == [files |-> {FileA}, uploads |-> 0, ids |-> 1, pending |-> 1, inflight |-> 1,
             bodies |-> "one", record |-> FALSE, calls |-> TableMaxCalls,
             polls |-> MaxPolls, urls |-> 1, untyped |-> FALSE]
\* the route on its own, called by clients that send any JSON body
StoreScn == [files |-> {FileA}, uploads |-> 0, ids |-> 1, pending |-> 1, inflight |-> 1,
             bodies |-> "one", record |-> FALSE, calls |-> StoreMaxCalls,
             polls |-> MaxPolls, urls |-> 1, untyped |-> TRUE]
Init == InitOf(FullScn)

\* ------------------------------------------------------- pure helpers
Ids(bs) == [i \in 1..Len(bs) |-> bs[i].id]
Range(s) == {s[i] : i \in 1..Len(s)}
RemoveAt(s, i) == [j \in 1..(Len(s) - 1) |-> IF j < i THEN s[j] ELSE s[j + 1]]

\* pdfPages.find(p => p.pageNumber === n): index of the first match, 0 if none
FindPage(pages, n) ==
  IF \E i \in 1..Len(pages) : pages[i].pageNumber = n
  THEN CHOOSE i \in 1..Len(pages) :
         /\ pages[i].pageNumber = n
         /\ \A j \in 1..(i - 1) : pages[j].pageNumber # n
  ELSE 0

\* boxes.filter(b => b.page === currentPage)
PageBoxes(bs, page) ==
  LET F[i \in 0..Len(bs)] ==
        IF i = 0 THEN << >>
        ELSE IF bs[i].page = page THEN Append(F[i - 1], bs[i]) ELSE F[i - 1]
  IN F[Len(bs)]
\* const currentPageBoxes = isPDF ? boxes.filter(...) : boxes
currentPageBoxes == IF isPDF THEN PageBoxes(boxes, currentPage) ELSE boxes

\* ------------------------------------------------- rendering (DOM side)
\* The dependencies of the drawCanvas callback; the draw effect re-runs
\* when one of them changes.
drawDeps == <<boxes, currentImage, selectedBoxId, imageNaturalSize,
              imageLoaded, isPDF, pdfPages, currentPage>>

\* What a paint leaves on the canvas: the buffer takes the size of the image
\* drawn, the boxes given are drawn over it (scaled by width/nw, height/nh),
\* the one whose id is the selected id with the 3px border.
Painted_accumulating(url, nw, nh, drawn, sel) ==
  [mounted |-> TRUE, width |-> NaturalDims(url)[1], height |-> NaturalDims(url)[2],
   painted |-> TRUE, img |-> url, nw |-> nw, nh |-> nh, drawn |-> canvas.drawn \o drawn,
   sel |-> IF sel \in Range(drawn) THEN sel ELSE NoBox]
Painted(url, nw, nh, drawn, sel) ==
  [mounted |-> TRUE, width |-> NaturalDims(url)[1], height |-> NaturalDims(url)[2],
   painted |-> TRUE, img |-> url, nw |-> nw, nh |-> nh, drawn |-> drawn,
   sel |-> IF sel \in Range(drawn) THEN sel ELSE NoBox]

\* drawCanvas, called by the draw effect after a render with the new state.
\* PDF mode only starts the load of the page image and paints in its onload
\* (ImageOnLoad below); image mode paints at once from the hidden <img>.
drawCanvas(cv, pd, el) ==
  IF isPDF'
  THEN LET i == FindPage(pdfPages', currentPage')
       IN IF i = 0 \/ ~cv.mounted
          THEN canvas' = cv /\ pendingDraws' = pd
          ELSE LET d == [url |-> pdfPages'[i].imageUrl,
                         nw |-> pdfPages'[i].width, nh |-> pdfPages'[i].height,
                         drawn |-> Ids(PageBoxes(boxes', currentPage')),
                         sel |-> selectedBoxId']
               IN /\ (d \in pd \/ Cardinality(pd) < scn.pending)
                  /\ pendingDraws' = pd \cup {d}
                  /\ canvas' = cv
  ELSE /\ pendingDraws' = pd
       /\ IF ~cv.mounted \/ ~el.mounted \/ currentImage' = NoImage \/ ~imageLoaded'
             \/ ~el.complete
             \/ NaturalDims(el.src)[1] = 0 \/ NaturalDims(el.src)[2] = 0
          THEN canvas' = cv
          ELSE canvas' = Painted(el.src, imageNaturalSize'.width,
                                 imageNaturalSize'.height, Ids(boxes'), selectedBoxId')

\* One render after a handler has set its state: the canvas and the hidden
\* <img> exist only while currentImage is set (the <img> only outside PDF
\* mode), and the draw effect runs drawCanvas when a dependency changed.
Commit ==
  LET cv == IF currentImage' = NoImage THEN NoCanvas
            ELSE IF canvas.mounted THEN canvas ELSE BlankCanvas
      pd == IF currentImage' = NoImage THEN {} ELSE pendingDraws
      el == IF currentImage' = NoImage \/ isPDF' THEN NoImgEl
            ELSE IF imgEl.mounted /\ imgEl.src = currentImage' THEN imgEl
            ELSE [mounted |-> TRUE, src |-> currentImage', complete |-> FALSE]
  IN /\ imgEl' = el
     /\ IF /\ drawDeps' # drawDeps
           /\ currentImage' # NoImage
           /\ (imageLoaded' \/ (isPDF' /\ Len(pdfPages') > 0))
        THEN drawCanvas(cv, pd, el)
        ELSE canvas' = cv /\ pendingDraws' = pd

\* img.onload of a page image started by drawCanvas in PDF mode
ImageOnLoad ==
  \E d \in pendingDraws :
    /\ canvas' = Painted(d.url, d.nw, d.nh, d.drawn, d.sel)
    /\ pendingDraws' = pendingDraws \ {d}
    /\ lastOp' = NoOp
    /\ UNCHANGED <<reactVars, idCounter, asyncVars, imgEl, uploads, issued, mapper, saveVars, viewVars, storeVars, scn>>

\* ------------------------------------------------------------- upload
\* processFile(file), up to its first await
\* history: the upload attempt a step was, in the runs that record it
UploadOp(file, via) ==
  IF scn.record THEN [op |-> "upload", via |-> via, file |-> file.name] ELSE NoOp

processFile(file, via) ==
  IF ~isImage(file) /\ ~isPDFFile(file)
  THEN /\ error' = "type"
       /\ lastOp' = UploadOp(file, via)
       /\ UNCHANGED <<currentImage, currentImageFile, boxes, selectedBoxId,
                      imageNaturalSize, isDetecting, backendStatus, imageLoaded,
                      isPDF, totalPages, currentPage, pdfPages, isConvertingPDF,
                      pdfJsLoaded, zoom, conversions, imageLoads, uploads>>
  ELSE IF file.size > MAX_FILE_SIZE
  THEN /\ error' = "size"
       /\ lastOp' = UploadOp(file, via)
       /\ UNCHANGED <<currentImage, currentImageFile, boxes, selectedBoxId,
                      imageNaturalSize, isDetecting, backendStatus, imageLoaded,
                      isPDF, totalPages, currentPage, pdfPages, isConvertingPDF,
                      pdfJsLoaded, zoom, conversions, imageLoads, uploads>>
  ELSE /\ uploads < scn.uploads
       /\ uploads' = uploads + 1
       /\ imageLoaded' = FALSE
       /\ currentImage' = NoImage
       /\ boxes' = << >>
       /\ isPDF' = isPDFFile(file)
       /\ totalPages' = 1
       /\ currentPage' = 1
       /\ pdfPages' = << >>
       /\ zoom' = ZoomDefault
       /\ currentImageFile' = file
       /\ UNCHANGED <<selectedBoxId, imageNaturalSize, isDetecting, backendStatus, pdfJsLoaded>>
       /\ IF isPDFFile(file)
          THEN IF ~pdfJsLoaded
               THEN /\ error' = "pdfjs"
                    /\ lastOp' = UploadOp(file, via)
                    /\ UNCHANGED <<isConvertingPDF, conversions, imageLoads>>
               ELSE \* convertPDFToImages runs up to `await file.arrayBuffer()`
                    /\ Len(conversions) + Len(imageLoads) < scn.inflight
                    /\ error' = "none"
                    /\ isConvertingPDF' = TRUE
                    /\ conversions' = Append(conversions, file)
                    /\ lastOp' = UploadOp(file, via)
                    /\ UNCHANGED imageLoads
          ELSE \* reader.readAsDataURL(file)
               /\ Len(conversions) + Len(imageLoads) < scn.inflight
               /\ error' = "none"
               /\ imageLoads' = Append(imageLoads, [file |-> file, stage |-> "read"])
               /\ lastOp' = UploadOp(file, via)
               /\ UNCHANGED <<isConvertingPDF, conversions>>

\* <input type="file"> change event
handleImageUpload ==
  \E file \in scn.files :
    /\ processFile(file, "picker")
    /\ Commit
    /\ UNCHANGED <<idCounter, detectReq, polls, pollTimer, issued, mapper, saveVars, viewVars, storeVars, scn>>

\* drop event on the drop zone: other types are ignored without a message
handleDrop ==
  \E file \in scn.files :
    /\ IF isImage(file) \/ file.type = "application/pdf"
       THEN processFile(file, "drop") /\ Commit
       ELSE /\ lastOp' = UploadOp(file, "drop")
            /\ UNCHANGED <<reactVars, conversions, imageLoads, domVars, uploads>>
    /\ UNCHANGED <<idCounter, detectReq, polls, pollTimer, issued, mapper, saveVars, viewVars, storeVars, scn>>

\* ------------------------------------------------- PDF rasterisation
\* convertPDFToImages(file): pages 1..numPages in order at PDFScale; failAt = k
\* makes the render of page k throw (0: every page renders).
convertPDFToImages(file, failAt) ==
  LET n == IF failAt = 0 THEN Len(file.dims) ELSE failAt - 1
  IN [ok |-> failAt = 0,
      pages |-> [i \in 1..n |->
                  [pageNumber |-> i,
                   imageUrl |-> [file |-> file.name, page |-> i],
                   width |-> PDFScale * file.dims[i][1],
                   height |-> PDFScale * file.dims[i][2]]]]

\* The rest of processFile after `await convertPDFToImages(file)` returned;
\* the finally block of convertPDFToImages runs in the same turn.
ConversionDoneAt(i) ==
    LET r == convertPDFToImages(conversions[i], 0)
    IN /\ conversions' = RemoveAt(conversions, i)
       /\ isConvertingPDF' = FALSE
       /\ pdfPages' = r.pages
       /\ totalPages' = Len(r.pages)
       /\ currentPage' = 1
       /\ IF Len(r.pages) > 0
          THEN /\ currentImage' = r.pages[1].imageUrl
               /\ imageNaturalSize' = [width |-> r.pages[1].width, height |-> r.pages[1].height]
               /\ imageLoaded' = TRUE
          ELSE UNCHANGED <<currentImage, imageNaturalSize, imageLoaded>>
       /\ lastOp' = NoOp
       /\ UNCHANGED <<currentImageFile, boxes, selectedBoxId, isDetecting, error,
                      backendStatus, isPDF, pdfJsLoaded, zoom>>
       /\ Commit
       /\ UNCHANGED <<idCounter, detectReq, imageLoads, polls, pollTimer, uploads, issued, mapper, saveVars, viewVars, storeVars, scn>>

ConversionDone == \E i \in 1..Len(conversions) : ConversionDoneAt(i)

\* convertPDFToImages threw (the document or page failAt did not render):
\* its finally block, then the catch of processFile
ConversionFailedAt_partial(i, failAt) ==
    LET r == convertPDFToImages(conversions[i], failAt)
    IN /\ ~r.ok
       /\ conversions' = RemoveAt(conversions, i)
       /\ isConvertingPDF' = FALSE
       /\ error' = "convert"
       /\ pdfPages' = r.pages
       /\ lastOp' = NoOp
       /\ UNCHANGED <<currentImage, currentImageFile, boxes, selectedBoxId,
                      imageNaturalSize, isDetecting, backendStatus, imageLoaded,
                      isPDF, totalPages, currentPage, pdfJsLoaded, zoom>>
       /\ Commit
       /\ UNCHANGED <<idCounter, detectReq, imageLoads, polls, pollTimer, uploads, issued, mapper, saveVars, viewVars, storeVars, scn>>
ConversionFailedAt(i, failAt) ==
    LET r == convertPDFToImages(conversions[i], failAt)
    IN /\ ~r.ok
       /\ conversions' = RemoveAt(conversions, i)
       /\ isConvertingPDF' = FALSE
       /\ error' = "convert"
       /\ lastOp' = NoOp
       /\ UNCHANGED <<currentImage, currentImageFile, boxes, selectedBoxId,
                      imageNaturalSize, isDetecting, backendStatus, imageLoaded,
                      isPDF, totalPages, currentPage, pdfPages, pdfJsLoaded, zoom>>
       /\ Commit
       /\ UNCHANGED <<idCounter, detectReq, imageLoads, polls, pollTimer, uploads, issued, mapper, saveVars, viewVars, storeVars, scn>>

ConversionFailed ==
  \E i \in 1..Len(conversions) : \E failAt \in 1..Len(conversions[i].dims) :
    ConversionFailedAt(i, failAt)

\* script.onload of pdf.min.js
PdfJsOnLoad ==
  /\ ~pdfJsLoaded
  /\ pdfJsLoaded' = TRUE
  /\ lastOp' = NoOp
  /\ UNCHANGED <<currentImage, currentImageFile, boxes, selectedBoxId,
                 imageNaturalSize, isDetecting, error, backendStatus, imageLoaded,
                 isPDF, totalPages, currentPage, pdfPages, isConvertingPDF, zoom>>
  /\ Commit
  /\ UNCHANGED <<idCounter, asyncVars, uploads, issued, mapper, saveVars, viewVars, storeVars, scn>>

\* ------------------------------------------------ single-image loading
\* reader.onload followed by img.onload of the decoded data URL
DecodedOnLoad ==
  \E i \in 1..Len(imageLoads) :
    /\ imageLoads[i].stage = "read"
    /\ imageNaturalSize' = [width |-> imageLoads[i].file.dims[1][1],
                            height |-> imageLoads[i].file.dims[1][2]]
    /\ currentImage' = [file |-> imageLoads[i].file.name, page |-> 0]
    /\ imageLoads' = [imageLoads EXCEPT ![i].stage = "timer"]
    /\ lastOp' = NoOp
    /\ UNCHANGED <<currentImageFile, boxes, selectedBoxId, isDetecting, error,
                   backendStatus, imageLoaded, isPDF, totalPages, currentPage,
                   pdfPages, isConvertingPDF, pdfJsLoaded, zoom>>
    /\ Commit
    /\ UNCHANGED <<idCounter, detectReq, conversions, polls, pollTimer, uploads, issued, mapper, saveVars, viewVars, storeVars, scn>>

\* reader.onerror / empty result ("read") or img.onerror ("load")
LoadOnError ==
  \E i \in 1..Len(imageLoads) : \E why \in {"read", "load"} :
    /\ imageLoads[i].stage = "read"
    /\ error' = why
    /\ imageLoads' = RemoveAt(imageLoads, i)
    /\ lastOp' = NoOp
    /\ UNCHANGED <<currentImage, currentImageFile, boxes, selectedBoxId,
                   imageNaturalSize, isDetecting, backendStatus, imageLoaded,
                   isPDF, totalPages, currentPage, pdfPages, isConvertingPDF,
                   pdfJsLoaded, zoom>>
    /\ Commit
    /\ UNCHANGED <<idCounter, detectReq, conversions, polls, pollTimer, uploads, issued, mapper, saveVars, viewVars, storeVars, scn>>

\* setTimeout(() => setImageLoaded(true), 50)
LoadedTimer ==
  \E i \in 1..Len(imageLoads) :
    /\ imageLoads[i].stage = "timer"
    /\ imageLoaded' = TRUE
    /\ imageLoads' = RemoveAt(imageLoads, i)
    /\ lastOp' = NoOp
    /\ UNCHANGED <<currentImage, currentImageFile, boxes, selectedBoxId,
                   imageNaturalSize, isDetecting, error, backendStatus,
                   isPDF, totalPages, currentPage, pdfPages, isConvertingPDF,
                   pdfJsLoaded, zoom>>
    /\ Commit
    /\ UNCHANGED <<idCounter, detectReq, conversions, polls, pollTimer, uploads, issued, mapper, saveVars, viewVars, storeVars, scn>>

\* onLoad of the hidden <img>: setImageLoaded(true), then drawCanvas from a
\* zero timeout and from the draw effect
handleImageLoad ==
  /\ imgEl.mounted /\ ~imgEl.complete
  /\ imageLoaded' = TRUE
  /\ imgEl' = [imgEl EXCEPT !.complete = TRUE]
  /\ lastOp' = NoOp
  /\ UNCHANGED <<currentImage, currentImageFile, boxes, selectedBoxId,
                 imageNaturalSize, isDetecting, error, backendStatus,
                 isPDF, totalPages, currentPage, pdfPages, isConvertingPDF,
                 pdfJsLoaded, zoom>>
  /\ drawCanvas(canvas, pendingDraws, imgEl')
  /\ UNCHANGED <<idCounter, asyncVars, uploads, issued, mapper, saveVars, viewVars, storeVars, scn>>

\* ------------------------------------------------------ backend status
\* history: the step started a status check, from the timer, the button or the effect
PollOp(by) == IF scn.record THEN [op |-> "poll", by |-> by] ELSE NoOp

\* checkBackendStatus up to its fetch
checkBackendStatusBy(by) ==
  /\ polls < scn.polls
  /\ polls' = polls + 1
  /\ backendStatus' = IF mounted THEN "checking" ELSE backendStatus
  /\ lastOp' = PollOp(by)
  /\ UNCHANGED <<currentImage, currentImageFile, boxes, selectedBoxId,
                 imageNaturalSize, isDetecting, error, imageLoaded, isPDF,
                 totalPages, currentPage, pdfPages, isConvertingPDF, pdfJsLoaded, zoom>>
  /\ Commit
  /\ UNCHANGED <<idCounter, detectReq, conversions, imageLoads, pollTimer, uploads, issued, mapper, saveVars, viewVars, storeVars, scn>>

\* an armed setInterval(checkBackendStatus, 30000) fires
PollTick == pollTimer > 0 /\ checkBackendStatusBy("timer")

\* the refresh button next to the status
handleRefresh == mounted /\ checkBackendStatusBy("button")

\* checkBackendStatus: the interval timer or the refresh button
checkBackendStatus == PollTick \/ handleRefresh

\* history: the step was the settling of a status check
StatusOp(ok) == IF scn.record THEN [op |-> "status", ok |-> ok] ELSE NoOp

\* setBackendStatus of checkBackendStatus: response.ok, or else / catch
StatusAfter_optimistic(ok) == "connected"
StatusAfter(ok) == IF ok THEN "connected" ELSE "disconnected"

\* the fetch of checkBackendStatus settles: response.ok, or not / thrown;
\* a state setter called after the unmount changes nothing
StatusResponse ==
  \E ok \in BOOLEAN :
    /\ polls > 0
    /\ polls' = polls - 1
    /\ backendStatus' = IF ~mounted THEN backendStatus
                        ELSE StatusAfter(ok)
    /\ lastOp' = StatusOp(ok)
    /\ UNCHANGED <<currentImage, currentImageFile, boxes, selectedBoxId,
                   imageNaturalSize, isDetecting, error, imageLoaded, isPDF,
                   totalPages, currentPage, pdfPages, isConvertingPDF, pdfJsLoaded, zoom>>
    /\ Commit
    /\ UNCHANGED <<idCounter, detectReq, conversions, imageLoads, pollTimer, uploads, issued, mapper, saveVars, viewVars, storeVars, scn>>

\* the cleanup of the polling effect: clearInterval(interval)
clearInterval_none(timers) == timers
clearInterval(timers) == timers - 1

\* backendUrl changes: the polling effect is cleaned up and runs again
\* (checkBackendStatus(), fetchSavedResultsCount(), a new setInterval)
BackendUrlChanged ==
  /\ mounted
  /\ backendUrl < scn.urls
  /\ backendUrl' = backendUrl + 1
  /\ polls < scn.polls
  /\ polls' = polls + 1
  /\ backendStatus' = "checking"
  /\ countReq' = [NoReq EXCEPT !.stage = "sent"]
  /\ pollTimer' = clearInterval(pollTimer) + 1
  /\ lastOp' = PollOp("effect")
  /\ UNCHANGED <<currentImage, currentImageFile, boxes, selectedBoxId,
                 imageNaturalSize, isDetecting, error, imageLoaded, isPDF,
                 totalPages, currentPage, pdfPages, isConvertingPDF, pdfJsLoaded, zoom>>
  /\ Commit
  /\ UNCHANGED <<idCounter, detectReq, conversions, imageLoads, uploads, issued, mapper,
                 isSaving, saveMessage, savedResultsCount, labeledImages, saveReq,
                 clearReq, resultFile, api, mounted, popup, storeVars, scn>>

\* UATDashboard is unmounted: the cleanups of its effects run
Unmount ==
  /\ mounted
  /\ mounted' = FALSE
  /\ pollTimer' = clearInterval(pollTimer)
  /\ lastOp' = NoOp
  /\ UNCHANGED <<reactVars, idCounter, detectReq, conversions, imageLoads, polls, domVars,
                 uploads, issued, mapper, saveVars, backendUrl, popup, storeVars, scn>>

\* ------------------------------------------------------------ detection
generateId_reusing(counter) == [counter |-> counter + 1, id |-> 1 + (counter % 2)]
generateId(counter) == [counter |-> counter + 1, id |-> counter + 1]

\* allDetections.map(det => ({ ...det, id: generateId(), color: ... }))
MapDetections(dets, counter) ==
  LET F[i \in 0..Len(dets)] ==
        IF i = 0 THEN [boxes |-> << >>, counter |-> counter]
        ELSE LET g == generateId(F[i - 1].counter)
             IN [boxes |-> Append(F[i - 1].boxes,
                            [class_id |-> dets[i].class_id,
                             class_name |-> dets[i].class_name,
                             confidence |-> dets[i].confidence,
                             bbox |-> dets[i].bbox,
                             page |-> dets[i].page,
                             of |-> dets[i].of,
                             id |-> g.id,
                             color |-> getClassColor(dets[i].class_name)]),
                 counter |-> g.counter]
  IN F[Len(dets)]

\* A detection as the backend returns it for page `page` of `file` (page 0:
\* no page field); `of` is history: the file the detection was computed for.
OnPage(dets, page, file) ==
  [i \in 1..Len(dets) |->
    [class_id |-> dets[i].class_id, class_name |-> dets[i].class_name,
     confidence |-> dets[i].confidence, bbox |-> dets[i].bbox,
     page |-> page, of |-> file.name]]

\* The 2xx bodies the backend can answer a request carrying `file` with:
\* { detections } for an image, { file_type: 'pdf', total_pages, pages } for
\* a PDF (total_pages 0: the field is missing; withSize FALSE: the pages
\* carry no image_width / image_height), or a body with neither key.
PdfPageChoices == { << >>, <<DetTitle>>, <<DetStamp, DetTitle>> }
PdfBody(file, tp, ws, ch) ==
  [kind |-> "pdf", total_pages |-> tp,
   pages |-> [k \in 1..Len(file.dims) |->
               [detections |-> OnPage(ch[k], k, file),
                image_width |-> IF ws THEN PDFScale * file.dims[k][1] ELSE 0,
                image_height |-> IF ws THEN PDFScale * file.dims[k][2] ELSE 0]]]
Responses(file, bodies) ==
  IF bodies = "one"
  THEN IF isPDFFile(file)
       THEN { PdfBody(file, Len(file.dims), TRUE,
                      [k \in 1..Len(file.dims) |->
                        IF k = 1 THEN <<DetTitle>> ELSE <<DetStamp, DetTitle>>]) }
       ELSE { [kind |-> "image", detections |-> OnPage(<<DetStamp, DetTitle>>, 0, file)] }
  ELSE IF isPDFFile(file)
  THEN { PdfBody(file, tp, ws, ch) :
          tp \in {0, Len(file.dims)}, ws \in BOOLEAN,
          ch \in [1..Len(file.dims) -> PdfPageChoices] }
       \cup { [kind |-> "other"] }
  ELSE { [kind |-> "image", detections |-> OnPage(d, 0, file)] : d \in PageDetections }
       \cup { [kind |-> "other"] }

\* result.pages.forEach(page => allDetections = allDetections.concat(page.detections))
ConcatPages(pages) ==
  LET F[i \in 0..Len(pages)] ==
        IF i = 0 THEN << >> ELSE F[i - 1] \o pages[i].detections
  IN F[Len(pages)]

\* the Detect button (disabled while isDetecting): detectObjects up to its fetch
\* history: the step was a press of Detect
DetectOp == IF scn.record THEN [op |-> "detect"] ELSE NoOp

\* the same handler behind a button that stays enabled while detecting
detectObjects_unguarded ==
  /\ TRUE
  /\ IF currentImageFile = NoFile
     THEN /\ error' = "nofile"
          /\ lastOp' = DetectOp
          /\ UNCHANGED <<isDetecting, detectReq>>
     ELSE IF backendStatus # "connected"
     THEN /\ error' = "backend"
          /\ lastOp' = DetectOp
          /\ UNCHANGED <<isDetecting, detectReq>>
     ELSE /\ isDetecting' = TRUE
          /\ error' = "none"
          /\ detectReq' = currentImageFile
          /\ lastOp' = DetectOp
  /\ UNCHANGED <<currentImage, currentImageFile, boxes, selectedBoxId,
                 imageNaturalSize, backendStatus, imageLoaded, isPDF, totalPages,
                 currentPage, pdfPages, isConvertingPDF, pdfJsLoaded, zoom>>
  /\ Commit
  /\ UNCHANGED <<idCounter, conversions, imageLoads, polls, pollTimer, uploads, issued, mapper, saveVars, viewVars, storeVars, scn>>
detectObjects ==
  /\ ~isDetecting
  /\ IF currentImageFile = NoFile
     THEN /\ error' = "nofile"
          /\ lastOp' = DetectOp
          /\ UNCHANGED <<isDetecting, detectReq>>
     ELSE IF backendStatus # "connected"
     THEN /\ error' = "backend"
          /\ lastOp' = DetectOp
          /\ UNCHANGED <<isDetecting, detectReq>>
     ELSE /\ isDetecting' = TRUE
          /\ error' = "none"
          /\ detectReq' = currentImageFile
          /\ lastOp' = DetectOp
  /\ UNCHANGED <<currentImage, currentImageFile, boxes, selectedBoxId,
                 imageNaturalSize, backendStatus, imageLoaded, isPDF, totalPages,
                 currentPage, pdfPages, isConvertingPDF, pdfJsLoaded, zoom>>
  /\ Commit
  /\ UNCHANGED <<idCounter, conversions, imageLoads, polls, pollTimer, uploads, issued, mapper, saveVars, viewVars, storeVars, scn>>

\* setBoxes(detections): the mapped detections become the whole set
setBoxes_merging(prev, detections) == prev \o detections
setBoxes(prev, detections) == detections

\* the fetch of detectObjects answers 2xx with body `result`
ResponseArrives(result) ==
  /\ detectReq' = NoFile
  /\ isDetecting' = FALSE
  /\ IF result.kind = "other"
     THEN /\ error' = "format"
          /\ lastOp' = [op |-> "DetectResponse", result |-> result]
          /\ UNCHANGED <<boxes, totalPages, imageNaturalSize, idCounter, issued>>
     ELSE LET allDetections == IF result.kind = "pdf"
                               THEN ConcatPages(result.pages)
                               ELSE result.detections
              m == MapDetections(allDetections, idCounter)
          IN /\ m.counter <= scn.ids
             /\ totalPages' = IF result.kind = "pdf"
                              THEN (IF result.total_pages = 0 THEN 1
                                    ELSE result.total_pages)
                              ELSE 1
             /\ imageNaturalSize' =
                  IF result.kind = "pdf" /\ Len(result.pages) > 0
                  THEN [width |-> IF result.pages[1].image_width = 0
                                  THEN FallbackPageW
                                  ELSE result.pages[1].image_width,
                        height |-> IF result.pages[1].image_height = 0
                                   THEN FallbackPageH
                                   ELSE result.pages[1].image_height]
                  ELSE imageNaturalSize
             /\ boxes' = setBoxes(boxes, m.boxes)
             /\ idCounter' = m.counter
             /\ issued' = issued \o Ids(m.boxes)
             /\ error' = IF Len(m.boxes) = 0 THEN "nodet" ELSE error
             /\ lastOp' = [op |-> "DetectResponse", result |-> result]
  /\ UNCHANGED <<currentImage, currentImageFile, selectedBoxId, backendStatus,
                 imageLoaded, isPDF, currentPage, pdfPages, isConvertingPDF,
                 pdfJsLoaded, zoom>>
  /\ Commit
  /\ UNCHANGED <<conversions, imageLoads, polls, pollTimer, uploads, mapper, saveVars, viewVars, storeVars, scn>>

DetectResponse ==
  /\ detectReq # NoFile
  /\ \E result \in Responses(detectReq, scn.bodies) : ResponseArrives(result)

\* the fetch of detectObjects throws or answers non-2xx
DetectFailed_clearing ==
  /\ detectReq # NoFile
  /\ detectReq' = NoFile
  /\ isDetecting' = FALSE
  /\ error' = "detect"
  /\ lastOp' = [op |-> "DetectFailed"]
  /\ boxes' = << >>
  /\ UNCHANGED <<currentImage, currentImageFile, selectedBoxId,
                 imageNaturalSize, backendStatus, imageLoaded, isPDF, totalPages,
                 currentPage, pdfPages, isConvertingPDF, pdfJsLoaded, zoom>>
  /\ Commit
  /\ UNCHANGED <<idCounter, conversions, imageLoads, polls, pollTimer, uploads, issued, mapper, saveVars, viewVars, storeVars, scn>>
DetectFailed ==
  /\ detectReq # NoFile
  /\ detectReq' = NoFile
  /\ isDetecting' = FALSE
  /\ error' = "detect"
  /\ lastOp' = [op |-> "DetectFailed"]
  /\ UNCHANGED <<currentImage, currentImageFile, boxes, selectedBoxId,
                 imageNaturalSize, backendStatus, imageLoaded, isPDF, totalPages,
                 currentPage, pdfPages, isConvertingPDF, pdfJsLoaded, zoom>>
  /\ Commit
  /\ UNCHANGED <<idCounter, conversions, imageLoads, polls, pollTimer, uploads, issued, mapper, saveVars, viewVars, storeVars, scn>>

\* ------------------------------------------------- navigation and zoom
\* the page bar is rendered only for {currentImage && isPDF && totalPages > 1}
PageBarShown == currentImage # NoImage /\ isPDF /\ totalPages > 1

goToPreviousPage ==
  /\ PageBarShown
  /\ currentPage > 1
  /\ currentPage' = currentPage - 1
  /\ LET i == FindPage(pdfPages, currentPage - 1)
     IN IF i # 0
        THEN /\ currentImage' = pdfPages[i].imageUrl
             /\ imageNaturalSize' = [width |-> pdfPages[i].width, height |-> pdfPages[i].height]
        ELSE UNCHANGED <<currentImage, imageNaturalSize>>
  /\ lastOp' = NoOp
  /\ UNCHANGED <<currentImageFile, boxes, selectedBoxId, isDetecting, error,
                 backendStatus, imageLoaded, isPDF, totalPages, pdfPages,
                 isConvertingPDF, pdfJsLoaded, zoom>>
  /\ Commit
  /\ UNCHANGED <<idCounter, asyncVars, uploads, issued, mapper, saveVars, viewVars, storeVars, scn>>

goToNextPage ==
  /\ PageBarShown
  /\ currentPage < totalPages
  /\ currentPage' = currentPage + 1
  /\ LET i == FindPage(pdfPages, currentPage + 1)
     IN IF i # 0
        THEN /\ currentImage' = pdfPages[i].imageUrl
             /\ imageNaturalSize' = [width |-> pdfPages[i].width, height |-> pdfPages[i].height]
        ELSE UNCHANGED <<currentImage, imageNaturalSize>>
  /\ lastOp' = NoOp
  /\ UNCHANGED <<currentImageFile, boxes, selectedBoxId, isDetecting, error,
                 backendStatus, imageLoaded, isPDF, totalPages, pdfPages,
                 isConvertingPDF, pdfJsLoaded, zoom>>
  /\ Commit
  /\ UNCHANGED <<idCounter, asyncVars, uploads, issued, mapper, saveVars, viewVars, storeVars, scn>>

Min(a, b) == IF a < b THEN a ELSE b
Max(a, b) == IF a > b THEN a ELSE b

\* history: the step was a zoom handler
ZoomOp(how) == IF scn.record THEN [op |-> "zoom", how |-> how] ELSE NoOp

\* prev => Math.min(prev + 0.25, 3)
ZoomInTo_unclamped(prev) == prev + ZoomStep
ZoomInTo(prev) == Min(prev + ZoomStep, ZoomMax)

\* setZoom(prev => Math.min(prev + 0.25, 3)): button or Ctrl/Cmd '+'
handleZoomIn_writing_back ==
  /\ zoom' = Min(zoom + ZoomStep, ZoomMax)
  /\ boxes' = [i \in 1..Len(boxes) |->
                [boxes[i] EXCEPT !.bbox = <<boxes[i].bbox[1], boxes[i].bbox[2],
                                            boxes[i].bbox[3] + 1, boxes[i].bbox[4] + 1>>]]
  /\ lastOp' = NoOp
  /\ UNCHANGED <<currentImage, currentImageFile, selectedBoxId,
                 imageNaturalSize, isDetecting, error, backendStatus, imageLoaded,
                 isPDF, totalPages, currentPage, pdfPages, isConvertingPDF, pdfJsLoaded>>
  /\ Commit
  /\ UNCHANGED <<idCounter, asyncVars, uploads, issued, mapper, saveVars, viewVars, storeVars, scn>>
handleZoomIn ==
  /\ zoom' = ZoomInTo(zoom)
  /\ lastOp' = ZoomOp("in")
  /\ UNCHANGED <<currentImage, currentImageFile, boxes, selectedBoxId,
                 imageNaturalSize, isDetecting, error, backendStatus, imageLoaded,
                 isPDF, totalPages, currentPage, pdfPages, isConvertingPDF, pdfJsLoaded>>
  /\ Commit
  /\ UNCHANGED <<idCounter, asyncVars, uploads, issued, mapper, saveVars, viewVars, storeVars, scn>>

\* setZoom(prev => Math.max(prev - 0.25, 0.25)): button or Ctrl/Cmd '-'
handleZoomOut ==
  /\ zoom' = Max(zoom - ZoomStep, ZoomMin)
  /\ lastOp' = ZoomOp("out")
  /\ UNCHANGED <<currentImage, currentImageFile, boxes, selectedBoxId,
                 imageNaturalSize, isDetecting, error, backendStatus, imageLoaded,
                 isPDF, totalPages, currentPage, pdfPages, isConvertingPDF, pdfJsLoaded>>
  /\ Commit
  /\ UNCHANGED <<idCounter, asyncVars, uploads, issued, mapper, saveVars, viewVars, storeVars, scn>>

\* setZoom(1): button or Ctrl/Cmd '0'
handleResetZoom ==
  /\ zoom' = ZoomDefault
  /\ lastOp' = ZoomOp("reset")
  /\ UNCHANGED <<currentImage, currentImageFile, boxes, selectedBoxId,
                 imageNaturalSize, isDetecting, error, backendStatus, imageLoaded,
                 isPDF, totalPages, currentPage, pdfPages, isConvertingPDF, pdfJsLoaded>>
  /\ Commit
  /\ UNCHANGED <<idCounter, asyncVars, uploads, issued, mapper, saveVars, viewVars, storeVars, scn>>

\* the keydown listener of the window: Ctrl/Cmd with '=', '+', '-' or '0'
Keys == {"=", "+", "-", "0", "a"}
handleKeyDown ==
  \E key \in Keys, ctrlOrMeta \in BOOLEAN :
    IF ctrlOrMeta /\ key \in {"=", "+"} THEN handleZoomIn
    ELSE IF ctrlOrMeta /\ key = "-" THEN handleZoomOut
    ELSE IF ctrlOrMeta /\ key = "0" THEN handleResetZoom
    ELSE UNCHANGED vars

\* ---------------------------------------------------------- selection
\* Points of natural space the user aims at, and the factors by which the
\* layout (max-w-full / max-h-full) can shrink the canvas element: its CSS
\* box is 1/shrink of its drawing buffer.
ClickPoints == { <<1, 1>>, <<5, 3>>, <<6, 4>>, <<8, 6>>, <<2, 5>> }
Shrinks == {1, 2}

\* drawCanvas: scaleX = image.width / imageNaturalSize.width, scaleY likewise
DrawScale(dw, dh, nw, nh) == <<Rat(dw, nw), Rat(dh, nh)>>

\* drawBox: scaledX = x * scaleX, scaledY = y * scaleY
ScaleToDisplay(p, scale) == <<RMul(RInt(p[1]), scale[1]), RMul(RInt(p[2]), scale[2])>>

\* handleCanvasClick: scaleX = refWidth / canvas.width, scaleY likewise
ClickScale_oneFactor(refWidth, refHeight, cw, ch) == <<Rat(refWidth, cw), Rat(refWidth, cw)>>
ClickScale(refWidth, refHeight, cw, ch) == <<Rat(refWidth, cw), Rat(refHeight, ch)>>

\* handleCanvasClick: x = (e.clientX - rect.left) * scaleX, y likewise
ScaleToNatural(off, scale) == <<RMul(off[1], scale[1]), RMul(off[2], scale[2])>>

\* Offset from the corner of canvas.getBoundingClientRect() at which the
\* natural-space point p is shown: drawBox scales by width/nw into the
\* buffer, the layout shrinks the buffer, transform: scale(zoom) scales it.
ScreenOffset(p, shrink) ==
  LET q == IF canvas.painted
           THEN ScaleToDisplay(p, DrawScale(canvas.width, canvas.height,
                                            canvas.nw, canvas.nh))
           ELSE <<RInt(p[1]), RInt(p[2])>>
  IN <<RMul(q[1], Rat(zoom, shrink * 4)), RMul(q[2], Rat(zoom, shrink * 4))>>

\* The point handleCanvasClick computes from the offset (e.clientX - rect.left,
\* e.clientY - rect.top): offset * refWidth / canvas.width per axis.
ClickToNatural(off) ==
  LET i == IF isPDF THEN FindPage(pdfPages, currentPage) ELSE 0
      refWidth == IF i # 0 THEN pdfPages[i].width ELSE imageNaturalSize.width
      refHeight == IF i # 0 THEN pdfPages[i].height ELSE imageNaturalSize.height
  IN ScaleToNatural(off, ClickScale(refWidth, refHeight, canvas.width, canvas.height))

\* x >= bx && x <= bx + bw && y >= by && y <= by + bh
Contains_open(box, pt) ==
  /\ ~RLeq(pt[1], RInt(box.bbox[1]))
  /\ ~RLeq(RInt(box.bbox[1] + box.bbox[3]), pt[1])
  /\ ~RLeq(pt[2], RInt(box.bbox[2]))
  /\ ~RLeq(RInt(box.bbox[2] + box.bbox[4]), pt[2])
Contains(box, pt) ==
  /\ RLeq(RInt(box.bbox[1]), pt[1])
  /\ RLeq(pt[1], RInt(box.bbox[1] + box.bbox[3]))
  /\ RLeq(RInt(box.bbox[2]), pt[2])
  /\ RLeq(pt[2], RInt(box.bbox[2] + box.bbox[4]))

\* relevantBoxes.find(box => ...): id of the first box containing pt, or NoBox
FindClicked(bs, pt) ==
  LET F[i \in 0..Len(bs)] ==
        IF i = 0 THEN NoBox
        ELSE IF F[i - 1] # NoBox THEN F[i - 1]
        ELSE IF Contains(bs[i], pt) THEN bs[i].id ELSE NoBox
  IN F[Len(bs)]

\* click on the canvas at the place where natural point p is shown
ClickAt(p, shrink) ==
  LET pt == ClickToNatural(ScreenOffset(p, shrink))
      relevantBoxes == IF isPDF THEN PageBoxes(boxes, currentPage) ELSE boxes
  IN /\ canvas.mounted
     /\ selectedBoxId' = FindClicked(relevantBoxes, pt)
     /\ lastOp' = [op |-> "handleCanvasClick", p |-> p, shrink |-> shrink]
     /\ UNCHANGED <<currentImage, currentImageFile, boxes, imageNaturalSize,
                    isDetecting, error, backendStatus, imageLoaded, isPDF,
                    totalPages, currentPage, pdfPages, isConvertingPDF,
                    pdfJsLoaded, zoom>>
     /\ Commit
     /\ UNCHANGED <<idCounter, asyncVars, uploads, issued, mapper, saveVars, viewVars, storeVars, scn>>

handleCanvasClick == \E p \in ClickPoints, shrink \in Shrinks : ClickAt(p, shrink)

\* click on a row of the details panel:
\* setSelectedBoxId(box.id === selectedBoxId ? null : box.id)
handleRowClick ==
  \E i \in 1..Len(currentPageBoxes) :
    LET box == currentPageBoxes[i]
    IN /\ selectedBoxId' = IF box.id = selectedBoxId THEN NoBox ELSE box.id
       /\ lastOp' = NoOp
       /\ UNCHANGED <<currentImage, currentImageFile, boxes, imageNaturalSize,
                      isDetecting, error, backendStatus, imageLoaded, isPDF,
                      totalPages, currentPage, pdfPages, isConvertingPDF,
                      pdfJsLoaded, zoom>>
       /\ Commit
       /\ UNCHANGED <<idCounter, asyncVars, uploads, issued, mapper, saveVars, viewVars, storeVars, scn>>

\* --------------------------------------------- the coordinate mapping
\* The two scalings on their own: a point of natural space is scaled into a
\* display box as drawBox does, and the display point is scaled back as
\* handleCanvasClick does with the same natural and display dimensions.
Dims == 1..MaxDim
MapperInputs ==
  { [nw |-> nw, nh |-> nh, dw |-> dw, dh |-> dh, p |-> <<x, y>>, stage |-> "in",
     disp |-> <<RInt(0), RInt(0)>>, back |-> <<RInt(0), RInt(0)>>] :
    nw \in Dims, nh \in Dims, dw \in Dims, dh \in Dims,
    x \in 0..MaxDim, y \in 0..MaxDim }

MapDraw ==
  /\ mapper.stage = "in"
  /\ mapper' = [mapper EXCEPT
                  !.disp = ScaleToDisplay(mapper.p, DrawScale(mapper.dw, mapper.dh,
                                                              mapper.nw, mapper.nh)),
                  !.stage = "drawn"]
  /\ UNCHANGED <<reactVars, idCounter, asyncVars, domVars, uploads, issued, lastOp, saveVars, viewVars, storeVars, scn>>

MapClick ==
  /\ mapper.stage = "drawn"
  /\ mapper' = [mapper EXCEPT
                  !.back = ScaleToNatural(mapper.disp, ClickScale(mapper.nw, mapper.nh,
                                                                  mapper.dw, mapper.dh)),
                  !.stage = "clicked"]
  /\ UNCHANGED <<reactVars, idCounter, asyncVars, domVars, uploads, issued, lastOp, saveVars, viewVars, storeVars, scn>>

\* ------------------------------------------ persistence (save-result route)
\* imageName values a request body carries
Names == {"a.png", "A.PNG", "b.pdf"}

\* the imageName of a body that has none (undefined)
NoName == "undefined"
\* newResult = await request.json(): nothing checks the body against
\* DetectionResult; the dashboard always sends a name
BodyNames == IF scn.untyped THEN Names \cup {NoName} ELSE Names

\* String.prototype.toLowerCase on those names
toLowerCase_identity(name) == name
toLowerCase(name) == IF name = "A.PNG" THEN "a.png" ELSE name

\* result.json holding { results, lastUpdated }
JsonFile(results) == [kind |-> "json", results |-> results]
\* what the disk can hold when the server starts
DiskStates == {MissingFile, [kind |-> "empty", results |-> << >>],
               [kind |-> "corrupt", results |-> << >>]}

\* readResultFile(): a file that is missing, empty or not JSON is replaced by
\* { results: [] }; `w` tells whether writeFileSync succeeds during this call
readResultFile(file, w) ==
  IF file.kind = "json"
  THEN [threw |-> FALSE, results |-> file.results, file |-> file]
  ELSE IF w
  THEN [threw |-> FALSE, results |-> << >>, file |-> JsonFile(<< >>)]
  ELSE [threw |-> TRUE, results |-> << >>, file |-> file]

\* existingData.results.some(r => r.imageName.toLowerCase() === name.toLowerCase())
isDuplicate(results, name) ==
  \E i \in 1..Len(results) : toLowerCase(results[i].imageName) = toLowerCase(name)

\* the callback of some() calls toLowerCase on a stored imageName and on the
\* new one: it throws a TypeError at the first record some() reaches (it
\* stops at the first match) if either of the two is undefined
SomeThrows(results, name) ==
  \E i \in 1..Len(results) :
    /\ results[i].imageName = NoName \/ name = NoName
    /\ \A j \in 1..(i - 1) : toLowerCase(results[j].imageName) # toLowerCase(name)

\* POST: the response and the file it leaves; `id` stands for result_<time>_<random>
\* the same without the duplicate check
POST_unchecked(file, name, id, w) ==
  LET r == readResultFile(file, w)
      pushed == Append(r.results, [id |-> id, imageName |-> name])
  IN IF r.threw
     THEN [file |-> r.file, status |-> 500, error |-> "Failed to save result",
           totalResults |-> 0]
     ELSE IF SomeThrows(r.results, name)
     THEN [file |-> r.file, status |-> 500, error |-> "Failed to save result",
           totalResults |-> 0]
     ELSE IF FALSE
     THEN [file |-> r.file, status |-> 409, error |-> "duplicate", totalResults |-> 0]
     ELSE IF ~w
     THEN [file |-> r.file, status |-> 500, error |-> "Failed to save result",
           totalResults |-> 0]
     ELSE [file |-> JsonFile(pushed), status |-> 200, error |-> "",
           totalResults |-> Len(pushed)]
\* the same writing only the new record
POST_overwriting(file, name, id, w) ==
  LET r == readResultFile(file, w)
      pushed == <<[id |-> id, imageName |-> name]>>
  IN IF r.threw
     THEN [file |-> r.file, status |-> 500, error |-> "Failed to save result",
           totalResults |-> 0]
     ELSE IF SomeThrows(r.results, name)
     THEN [file |-> r.file, status |-> 500, error |-> "Failed to save result",
           totalResults |-> 0]
     ELSE IF isDuplicate(r.results, name)
     THEN [file |-> r.file, status |-> 409, error |-> "duplicate", totalResults |-> 0]
     ELSE IF ~w
     THEN [file |-> r.file, status |-> 500, error |-> "Failed to save result",
           totalResults |-> 0]
     ELSE [file |-> JsonFile(pushed), status |-> 200, error |-> "",
           totalResults |-> Len(pushed)]
POST(file, name, id, w) ==
  LET r == readResultFile(file, w)
      pushed == Append(r.results, [id |-> id, imageName |-> name])
  IN IF r.threw
     THEN [file |-> r.file, status |-> 500, error |-> "Failed to save result",
           totalResults |-> 0]
     ELSE IF SomeThrows(r.results, name)
     THEN [file |-> r.file, status |-> 500, error |-> "Failed to save result",
           totalResults |-> 0]
     ELSE IF isDuplicate(r.results, name)
     THEN [file |-> r.file, status |-> 409, error |-> "duplicate", totalResults |-> 0]
     ELSE IF ~w
     THEN [file |-> r.file, status |-> 500, error |-> "Failed to save result",
           totalResults |-> 0]
     ELSE [file |-> JsonFile(pushed), status |-> 200, error |-> "",
           totalResults |-> Len(pushed)]

\* GET: the results read; a failure to read answers 200 with an empty list
GET(file, w) ==
  LET r == readResultFile(file, w)
  IN [file |-> r.file, status |-> 200, results |-> r.results]

\* DELETE: the file is rewritten as { results: [] }
DELETE_keeping(file, w) ==
  IF w THEN [file |-> file, status |-> 200] ELSE [file |-> file, status |-> 500]
DELETE(file, w) ==
  IF w THEN [file |-> JsonFile(<< >>), status |-> 200] ELSE [file |-> file, status |-> 500]

\* history of one call of the route
Called(method, by, name, status, err, results, w) ==
  [seq |-> api.seq + 1, method |-> method, by |-> by, imageName |-> name,
   status |-> status, error |-> err, results |-> results, wrote |-> w,
   prev |-> IF api.method = "none" THEN "none"
            ELSE IF api.status = 200 THEN api.method ELSE "failed",
   wiped |-> IF method = "DELETE" /\ status = 200
             THEN {resultFile.results[i].imageName : i \in 1..Len(resultFile.results)}
             ELSE api.wiped]

\* the route handles the POST of saveAnnotation
RoutePOST ==
  /\ api.seq < scn.calls
  /\ saveReq.stage = "sent"
  /\ \E w \in BOOLEAN :
       LET res == POST(resultFile, saveReq.imageName, api.seq + 1, w)
       IN /\ resultFile' = res.file
          /\ saveReq' = [saveReq EXCEPT !.stage = "answered", !.status = res.status,
                                        !.error = res.error,
                                        !.totalResults = res.totalResults]
          /\ api' = Called("POST", "dashboard", saveReq.imageName, res.status, res.error,
                           res.file.results, w)
  /\ lastOp' = NoOp
  /\ UNCHANGED <<reactVars, idCounter, asyncVars, domVars, uploads, issued, mapper,
                 isSaving, saveMessage, savedResultsCount, labeledImages, clearReq,
                 countReq, viewVars, storeVars, scn>>

\* the route handles a POST of another client (another tab, a script)
OtherPOST ==
  /\ api.seq < scn.calls
  /\ \E name \in BodyNames, w \in BOOLEAN :
       LET res == POST(resultFile, name, api.seq + 1, w)
       IN /\ resultFile' = res.file
          /\ api' = Called("POST", "other", name, res.status, res.error,
                           res.file.results, w)
  /\ lastOp' = NoOp
  /\ UNCHANGED <<reactVars, idCounter, asyncVars, domVars, uploads, issued, mapper,
                 isSaving, saveMessage, savedResultsCount, labeledImages, saveReq,
                 clearReq, countReq, viewVars, storeVars, scn>>

\* the route handles the GET of fetchSavedResultsCount
RouteGET ==
  /\ api.seq < scn.calls
  /\ countReq.stage = "sent"
  /\ \E w \in BOOLEAN :
       LET res == GET(resultFile, w)
       IN /\ resultFile' = res.file
          /\ countReq' = [countReq EXCEPT !.stage = "answered", !.status = res.status,
                                          !.totalResults = Len(res.results)]
          /\ api' = Called("GET", "dashboard", "", res.status, "", res.results, w)
  /\ lastOp' = NoOp
  /\ UNCHANGED <<reactVars, idCounter, asyncVars, domVars, uploads, issued, mapper,
                 isSaving, saveMessage, savedResultsCount, labeledImages, saveReq,
                 clearReq, viewVars, storeVars, scn>>

\* the route handles a GET of another client (the results page)
OtherGET ==
  /\ api.seq < scn.calls
  /\ \E w \in BOOLEAN :
       LET res == GET(resultFile, w)
       IN /\ resultFile' = res.file
          /\ api' = Called("GET", "other", "", res.status, "", res.results, w)
  /\ lastOp' = NoOp
  /\ UNCHANGED <<reactVars, idCounter, asyncVars, domVars, uploads, issued, mapper,
                 isSaving, saveMessage, savedResultsCount, labeledImages, saveReq,
                 clearReq, countReq, viewVars, storeVars, scn>>

\* the route handles the DELETE of clearAllResults
RouteDELETE ==
  /\ api.seq < scn.calls
  /\ clearReq.stage = "sent"
  /\ \E w \in BOOLEAN :
       LET res == DELETE(resultFile, w)
       IN /\ resultFile' = res.file
          /\ clearReq' = [clearReq EXCEPT !.stage = "answered", !.status = res.status]
          /\ api' = Called("DELETE", "dashboard", "", res.status, "", res.file.results, w)
  /\ lastOp' = NoOp
  /\ UNCHANGED <<reactVars, idCounter, asyncVars, domVars, uploads, issued, mapper,
                 isSaving, saveMessage, savedResultsCount, labeledImages, saveReq,
                 countReq, viewVars, storeVars, scn>>

\* the route handles a DELETE of another client
OtherDELETE ==
  /\ api.seq < scn.calls
  /\ \E w \in BOOLEAN :
       LET res == DELETE(resultFile, w)
       IN /\ resultFile' = res.file
          /\ api' = Called("DELETE", "other", "", res.status, "", res.file.results, w)
  /\ lastOp' = NoOp
  /\ UNCHANGED <<reactVars, idCounter, asyncVars, domVars, uploads, issued, mapper,
                 isSaving, saveMessage, savedResultsCount, labeledImages, saveReq,
                 clearReq, countReq, viewVars, storeVars, scn>>

\* ------------------------------------------- the results table (client)
\* the table has one request in flight at a time
TableUnchanged ==
  UNCHANGED <<reactVars, idCounter, asyncVars, domVars, uploads, issued, lastOp, mapper,
              isSaving, saveMessage, savedResultsCount, labeledImages, saveReq,
              clearReq, countReq, viewVars, variant, scn>>

\* prev.filter(r => !selectedIds.has(r.id))
FilterOut(results, ids) ==
  LET F[i \in 0..Len(results)] ==
        IF i = 0 THEN << >>
        ELSE IF results[i].id \in ids THEN F[i - 1] ELSE Append(F[i - 1], results[i])
  IN F[Len(results)]

\* fetchResults(): fetch('/api/save-result')
Table_fetchResults ==
  /\ table.stage = "none"
  /\ table' = [table EXCEPT !.stage = "fetching"]
  /\ UNCHANGED <<resultFile, api>>
  /\ TableUnchanged

\* the route handles the GET of fetchResults
Table_RouteGET ==
  /\ api.seq < scn.calls
  /\ table.stage = "fetching"
  /\ \E w \in BOOLEAN :
       LET res == GET(resultFile, w)
       IN /\ resultFile' = res.file
          /\ table' = [table EXCEPT !.stage = "fetched", !.status = res.status,
                                    !.answer = res.results]
          /\ api' = Called("GET", "table", "", res.status, "", res.results, w)
  /\ TableUnchanged

\* fetchResults() after the await: setResults(data.results || [])
Table_FetchResponse ==
  /\ table.stage = "fetched"
  /\ table' = [table EXCEPT !.stage = "none", !.answer = << >>,
                            !.results = IF table.status = 200 THEN table.answer ELSE @]
  /\ UNCHANGED <<resultFile, api>>
  /\ TableUnchanged

\* toggleSelect(id) of a row shown
Table_toggleSelect ==
  /\ \E i \in 1..Len(table.results) :
       LET id == table.results[i].id
       IN table' = [table EXCEPT !.selectedIds = IF id \in @ THEN @ \ {id} ELSE @ \cup {id}]
  /\ UNCHANGED <<resultFile, api>>
  /\ TableUnchanged

\* toggleSelectAll(): every row shown is on the one page
Table_toggleSelectAll ==
  /\ table' = [table EXCEPT !.selectedIds =
                 IF Cardinality(@) = Len(table.results) THEN {}
                 ELSE {table.results[i].id : i \in 1..Len(table.results)}]
  /\ table' # table
  /\ UNCHANGED <<resultFile, api>>
  /\ TableUnchanged

\* deleteSelected(), confirmed: DELETE with body { ids: Array.from(selectedIds) }
Table_deleteSelected ==
  /\ table.stage = "none"
  /\ table.selectedIds # {}
  /\ table' = [table EXCEPT !.stage = "deleting", !.ids = table.selectedIds]
  /\ UNCHANGED <<resultFile, api>>
  /\ TableUnchanged

\* the route handles the DELETE of deleteSelected; it does not read the body
Table_RouteDELETE ==
  /\ api.seq < scn.calls
  /\ table.stage = "deleting"
  /\ \E w \in BOOLEAN :
       LET res == DELETE(resultFile, w)
       IN /\ resultFile' = res.file
          /\ table' = [table EXCEPT !.stage = "deleted", !.status = res.status,
                                    !.before = resultFile.results]
          /\ api' = Called("DELETE", "table", "", res.status, "", res.file.results, w)
  /\ TableUnchanged

\* deleteSelected() after the await: on response.ok the rows selected when it
\* was called are filtered out of the list and the selection is emptied
Table_DeleteResponse ==
  /\ table.stage = "deleted"
  /\ table' = IF table.status = 200
              THEN [table EXCEPT !.stage = "none", !.ids = {},
                                 !.results = FilterOut(@, table.ids),
                                 !.selectedIds = {}]
              ELSE [table EXCEPT !.stage = "none", !.ids = {}]
  /\ UNCHANGED <<resultFile, api>>
  /\ TableUnchanged

\* --------------------------- the route with a fallback path (the variant)
\* the file RESULT_FILE names, and a writeFileSync to one of the two paths
FileAt(v) == IF v.path = "preferred" THEN v.preferred ELSE v.fallback
WriteAt(v, path, file) ==
  IF path = "preferred" THEN [v EXCEPT !.preferred = file] ELSE [v EXCEPT !.fallback = file]

\* the file system during one call: rd, whether readFileSync of RESULT_FILE
\* succeeds; wp and wf, whether a write under the preferred and under the
\* fallback directory succeeds
FsStates == [rd : BOOLEAN, wp : BOOLEAN, wf : BOOLEAN]
CanWrite(path, fs) == IF path = "preferred" THEN fs.wp ELSE fs.wf

\* RESULT_FILE = selectResultFilePath(), run when the module is loaded
selectResultFilePath(fs) == IF fs.wp THEN "preferred" ELSE "fallback"

\* readResultFile() of the variant: when the try block throws while
\* RESULT_FILE is the preferred path, RESULT_FILE becomes the fallback path
\* and the fallback file is written as { results: [] }
Variant_readResultFile(v, fs) ==
  LET cur == FileAt(v)
      ok == IF cur.kind = "missing" THEN CanWrite(v.path, fs)
            ELSE IF ~fs.rd THEN FALSE
            ELSE IF cur.kind = "empty" THEN CanWrite(v.path, fs)
            ELSE cur.kind = "json"
  IN IF ok
     THEN [threw |-> FALSE, results |-> cur.results,
           v |-> IF cur.kind = "json" THEN v ELSE WriteAt(v, v.path, JsonFile(<< >>))]
     ELSE IF v.path = "preferred"
     THEN IF fs.wf
          THEN [threw |-> FALSE, results |-> << >>,
                v |-> [WriteAt(v, "fallback", JsonFile(<< >>)) EXCEPT !.path = "fallback"]]
          ELSE [threw |-> TRUE, results |-> << >>, v |-> [v EXCEPT !.path = "fallback"]]
     ELSE [threw |-> TRUE, results |-> << >>, v |-> v]

\* GET of the variant
Variant_GET(v, fs) ==
  LET r == Variant_readResultFile(v, fs)
  IN IF r.threw THEN [v |-> r.v, status |-> 500, results |-> << >>]
     ELSE [v |-> r.v, status |-> 200, results |-> r.results]

\* POST of the variant: a body without imageName is refused before the file
\* is read; a failed write to the preferred path is retried on the fallback
Variant_POST(v, name, id, fs) ==
  IF name = NoName
  THEN [v |-> v, status |-> 400, totalResults |-> 0]
  ELSE LET r == Variant_readResultFile(v, fs)
           pushed == Append(r.results, [id |-> id, imageName |-> name])
       IN IF r.threw
          THEN [v |-> r.v, status |-> 500, totalResults |-> 0]
          ELSE IF isDuplicate(r.results, name)
          THEN [v |-> r.v, status |-> 409, totalResults |-> 0]
          ELSE IF CanWrite(r.v.path, fs)
          THEN [v |-> WriteAt(r.v, r.v.path, JsonFile(pushed)), status |-> 200,
                totalResults |-> Len(pushed)]
          ELSE IF r.v.path = "preferred"
          THEN IF fs.wf
               THEN [v |-> [WriteAt(r.v, "fallback", JsonFile(pushed))
                              EXCEPT !.path = "fallback"],
                     status |-> 200, totalResults |-> Len(pushed)]
               ELSE [v |-> [r.v EXCEPT !.path = "fallback"], status |-> 500,
                     totalResults |-> 0]
          ELSE [v |-> r.v, status |-> 500, totalResults |-> 0]

\* DELETE of the variant
Variant_DELETE(v, fs) ==
  IF CanWrite(v.path, fs)
  THEN [v |-> WriteAt(v, v.path, JsonFile(<< >>)), status |-> 200]
  ELSE [v |-> v, status |-> 500]

\* one call of the variant route, with its history
VariantCalled(res, method, name, results) ==
  /\ variant.calls < scn.calls
  /\ variant' = [res.v EXCEPT !.calls = variant.calls + 1,
                              !.call = [method |-> method, imageName |-> name,
                                        status |-> res.status, results |-> results,
                                        totalResults |-> IF method = "POST"
                                                         THEN res.totalResults ELSE 0]]
  /\ UNCHANGED <<reactVars, idCounter, asyncVars, domVars, uploads, issued, lastOp, mapper,
                 saveVars, viewVars, table, scn>>

VariantGET ==
  \E fs \in FsStates :
    LET res == Variant_GET(variant, fs)
    IN VariantCalled(res, "GET", "", res.results)
VariantPOST ==
  \E name \in BodyNames, fs \in FsStates :
    LET res == Variant_POST(variant, name, variant.calls + 1, fs)
    IN VariantCalled(res, "POST", name, << >>)
VariantDELETE ==
  \E fs \in FsStates :
    LET res == Variant_DELETE(variant, fs)
    IN VariantCalled(res, "DELETE", "", << >>)
\* the server is restarted: the module is loaded again, the files stay
VariantRestart ==
  \E fs \in FsStates :
    VariantCalled([v |-> [variant EXCEPT !.path = selectResultFilePath(fs)], status |-> 0],
                  "restart", "", << >>)

\* ------------------------------------------------- saving (dashboard side)
\* const [imageName, setImageName]: processFile sets it with currentImageFile
imageName == currentImageFile.name

\* history: the step was a press of Save
SaveOp == IF scn.record THEN [op |-> "save"] ELSE NoOp

\* saveAnnotation(), up to its fetch; the Save button is disabled while isSaving
saveAnnotation_unguarded ==
  /\ ~isSaving
  /\ isSaving' = TRUE
  /\ saveMessage' = "none"
  /\ saveReq' = [NoReq EXCEPT !.stage = "sent", !.imageName = imageName,
                              !.labeled = labeledImages]
  /\ lastOp' = SaveOp
  /\ UNCHANGED <<reactVars, idCounter, asyncVars, domVars, uploads, issued, mapper,
                 savedResultsCount, labeledImages, clearReq, countReq, resultFile, api, viewVars, storeVars, scn>>
saveAnnotation ==
  /\ ~isSaving
  /\ IF currentImage = NoImage \/ Len(boxes) = 0
     THEN /\ saveMessage' = "nodata"
          /\ UNCHANGED <<isSaving, saveReq>>
     ELSE /\ isSaving' = TRUE
          /\ saveMessage' = "none"
          /\ saveReq' = [NoReq EXCEPT !.stage = "sent", !.imageName = imageName,
                                      !.labeled = labeledImages]
  /\ lastOp' = SaveOp
  /\ UNCHANGED <<reactVars, idCounter, asyncVars, domVars, uploads, issued, mapper,
                 savedResultsCount, labeledImages, clearReq, countReq, resultFile, api, viewVars, storeVars, scn>>

\* history: the step was the continuation of saveAnnotation on this response
SavedOp(req) == IF scn.record THEN [op |-> "saved", status |-> req.status,
                                    error |-> req.error]
                ELSE NoOp

\* the continuation of saveAnnotation once the response has arrived
SaveSettles_marking(req) ==
  /\ IF req.status = 200 \/ req.status = 409
     THEN /\ saveMessage' = IF req.status = 200 THEN "success" ELSE "duplicate"
          /\ savedResultsCount' = req.totalResults
          /\ labeledImages' = Append(req.labeled, req.imageName)
     ELSE /\ saveMessage' = "failed"
          /\ UNCHANGED <<savedResultsCount, labeledImages>>
  /\ isSaving' = FALSE
  /\ saveReq' = NoReq
  /\ lastOp' = SavedOp(req)
  /\ UNCHANGED <<reactVars, idCounter, asyncVars, domVars, uploads, issued, mapper,
                 clearReq, countReq, resultFile, api, viewVars, storeVars, scn>>
SaveSettles(req) ==
  /\ IF req.status = 200
     THEN /\ saveMessage' = "success"
          /\ savedResultsCount' = req.totalResults
          /\ labeledImages' = Append(req.labeled, req.imageName)
     ELSE IF req.status = 409 /\ req.error = "duplicate"
     THEN /\ saveMessage' = "duplicate"
          /\ UNCHANGED <<savedResultsCount, labeledImages>>
     ELSE /\ saveMessage' = "failed"
          /\ UNCHANGED <<savedResultsCount, labeledImages>>
  /\ isSaving' = FALSE
  /\ saveReq' = NoReq
  /\ lastOp' = SavedOp(req)
  /\ UNCHANGED <<reactVars, idCounter, asyncVars, domVars, uploads, issued, mapper,
                 clearReq, countReq, resultFile, api, viewVars, storeVars, scn>>
SaveResponse == saveReq.stage = "answered" /\ SaveSettles(saveReq)

\* the fetch of saveAnnotation rejects (no connection, or the response is lost)
SaveRejected ==
  /\ saveReq.stage \in {"sent", "answered"}
  /\ saveMessage' = "failed"
  /\ isSaving' = FALSE
  /\ saveReq' = NoReq
  /\ lastOp' = SavedOp([status |-> 0, error |-> "rejected"])
  /\ UNCHANGED <<reactVars, idCounter, asyncVars, domVars, uploads, issued, mapper,
                 savedResultsCount, labeledImages, clearReq, countReq, resultFile, api, viewVars, storeVars, scn>>

\* the 3 s timer of the saveMessage effect
SaveMessageTimer ==
  /\ saveMessage # "none"
  /\ saveMessage' = "none"
  /\ lastOp' = NoOp
  /\ UNCHANGED <<reactVars, idCounter, asyncVars, domVars, uploads, issued, mapper,
                 isSaving, savedResultsCount, labeledImages, saveReq, clearReq, countReq,
                 resultFile, api, viewVars, storeVars, scn>>

\* clearAllResults() confirmed; its button shows while savedResultsCount > 0
clearAllResults ==
  /\ savedResultsCount > 0
  /\ clearReq.stage = "none"
  /\ clearReq' = [NoReq EXCEPT !.stage = "sent"]
  /\ lastOp' = NoOp
  /\ UNCHANGED <<reactVars, idCounter, asyncVars, domVars, uploads, issued, mapper,
                 isSaving, saveMessage, savedResultsCount, labeledImages, saveReq,
                 countReq, resultFile, api, viewVars, storeVars, scn>>

\* the continuation of clearAllResults
ClearResponse ==
  /\ clearReq.stage = "answered"
  /\ IF clearReq.status = 200
     THEN savedResultsCount' = 0 /\ saveMessage' = "cleared"
     ELSE UNCHANGED <<savedResultsCount, saveMessage>>
  /\ clearReq' = NoReq
  /\ lastOp' = NoOp
  /\ UNCHANGED <<reactVars, idCounter, asyncVars, domVars, uploads, issued, mapper,
                 isSaving, labeledImages, saveReq, countReq, resultFile, api, viewVars, storeVars, scn>>

\* the continuation of fetchSavedResultsCount
CountResponse ==
  /\ countReq.stage = "answered"
  /\ savedResultsCount' = countReq.totalResults
  /\ countReq' = NoReq
  /\ lastOp' = NoOp
  /\ UNCHANGED <<reactVars, idCounter, asyncVars, domVars, uploads, issued, mapper,
                 isSaving, saveMessage, labeledImages, saveReq, clearReq, resultFile,
                 api, viewVars, storeVars, scn>>

\* ------------------------------------- results viewer (AnnotationPopup)
\* where the pointer can be (clientX, clientY)
PointerAt == {<<0, 0>>, <<1, 0>>, <<1, 2>>}

PopupStep(p) ==
  /\ popup' = p
  /\ UNCHANGED <<reactVars, idCounter, asyncVars, domVars, uploads, issued, lastOp, mapper,
                 saveVars, mounted, backendUrl, storeVars, scn>>

\* setZoom(prev => Math.min(prev + 0.25, 5))
Popup_handleZoomIn ==
  PopupStep([popup EXCEPT !.zoom = Min(popup.zoom + PopupZoomStep, PopupZoomMax),
                          !.op = "in"])

\* setZoom(prev => Math.max(prev - 0.25, 0.25))
Popup_handleZoomOut ==
  PopupStep([popup EXCEPT !.zoom = Max(popup.zoom - PopupZoomStep, PopupZoomMin),
                          !.op = "out"])

\* setZoom(1); setPan({ x: 0, y: 0 })
Popup_handleResetZoom ==
  PopupStep([popup EXCEPT !.zoom = PopupZoomDefault, !.pan = <<0, 0>>, !.op = "reset"])

\* the wheel listener: with Ctrl/Cmd, zoom by 0.1 towards the wheel direction
Popup_handleWheel ==
  \E down \in BOOLEAN, ctrlOrMeta \in BOOLEAN :
    IF ctrlOrMeta
    THEN LET delta == IF down THEN 0 - PopupWheelStep ELSE PopupWheelStep
         IN PopupStep([popup EXCEPT
                         !.zoom = Max(PopupZoomMin, Min(PopupZoomMax, popup.zoom + delta)),
                         !.op = "wheel"])
    ELSE UNCHANGED vars

\* handleMouseDown: panning starts only when zoomed in
Popup_handleMouseDown ==
  \E e \in PointerAt :
    IF popup.zoom > PopupZoomDefault
    THEN PopupStep([popup EXCEPT !.isPanning = TRUE,
                                 !.startPan = <<e[1] - popup.pan[1], e[2] - popup.pan[2]>>,
                                 !.op = "down"])
    ELSE UNCHANGED vars

\* handleMouseMove
Popup_handleMouseMove ==
  \E e \in PointerAt :
    IF popup.isPanning /\ popup.zoom > PopupZoomDefault
    THEN LET to == <<e[1] - popup.startPan[1], e[2] - popup.startPan[2]>>
         IN /\ to[1] \in (0 - MaxPan)..MaxPan
            /\ to[2] \in (0 - MaxPan)..MaxPan
            /\ PopupStep([popup EXCEPT !.pan = to, !.op = "move"])
    ELSE UNCHANGED vars

\* handleMouseUp / onMouseLeave
Popup_handleMouseUp ==
  PopupStep([popup EXCEPT !.isPanning = FALSE, !.op = "up"])

\* ------------------------------------------------------- specification
Next ==
  \/ handleImageUpload
  \/ handleDrop
  \/ PdfJsOnLoad
  \/ ConversionDone
  \/ ConversionFailed
  \/ DecodedOnLoad
  \/ LoadOnError
  \/ LoadedTimer
  \/ handleImageLoad
  \/ ImageOnLoad
  \/ checkBackendStatus
  \/ StatusResponse
  \/ detectObjects
  \/ DetectResponse
  \/ DetectFailed
  \/ goToPreviousPage
  \/ goToNextPage
  \/ handleZoomIn
  \/ handleZoomOut
  \/ handleResetZoom
  \/ handleCanvasClick
  \/ handleRowClick

NextAll ==
  \/ Next
  \/ saveAnnotation
  \/ SaveResponse
  \/ SaveRejected
  \/ SaveMessageTimer
  \/ clearAllResults
  \/ ClearResponse
  \/ CountResponse
  \/ RoutePOST
  \/ OtherPOST
  \/ RouteGET
  \/ OtherGET
  \/ RouteDELETE
  \/ OtherDELETE
  \/ BackendUrlChanged
  \/ Unmount
  \/ handleKeyDown
Spec == Init /\ [][NextAll]_vars

\* Upload, rasterisation and detection, with every failure path
NextDetect ==
  \/ handleImageUpload
  \/ handleDrop
  \/ PdfJsOnLoad
  \/ ConversionDone
  \/ ConversionFailed
  \/ DecodedOnLoad
  \/ LoadOnError
  \/ LoadedTimer
  \/ handleImageLoad
  \/ ImageOnLoad
  \/ StatusResponse
  \/ detectObjects
  \/ DetectResponse
  \/ DetectFailed

SpecDetect == InitOf(FullScn) /\ [][NextDetect]_vars

\* One file loaded and annotated, then viewed: pages, zoom, selection, drawing
NextView ==
  \/ handleImageUpload
  \/ PdfJsOnLoad
  \/ ConversionDone
  \/ DecodedOnLoad
  \/ LoadedTimer
  \/ handleImageLoad
  \/ ImageOnLoad
  \/ StatusResponse
  \/ detectObjects
  \/ DetectResponse
  \/ goToPreviousPage
  \/ goToNextPage
  \/ handleZoomIn
  \/ handleZoomOut
  \/ handleResetZoom
  \/ handleCanvasClick
  \/ handleRowClick

SpecView == InitOf(ViewScn) /\ [][NextView]_vars

\* Upload attempts of every kind of file over a session that was loaded,
\* annotated, paged, zoomed and selected in
NextUpload ==
  \/ handleImageUpload
  \/ handleDrop
  \/ PdfJsOnLoad
  \/ ConversionDone
  \/ DecodedOnLoad
  \/ LoadedTimer
  \/ handleImageLoad
  \/ ImageOnLoad
  \/ PollTick
  \/ StatusResponse
  \/ detectObjects
  \/ DetectResponse
  \/ goToNextPage
  \/ handleZoomIn
  \/ handleRowClick
SpecUpload == InitOf(UploadScn) /\ [][NextUpload]_vars

\* Saving: one image is uploaded, detected and saved; the route also serves
\* other clients
InitSave == SessionInit(SaveScn) /\ mapper = NoMapper /\ resultFile \in DiskStates
NextSave ==
  \/ handleImageUpload
  \/ DecodedOnLoad
  \/ LoadedTimer
  \/ handleImageLoad
  \/ StatusResponse
  \/ detectObjects
  \/ DetectResponse
  \/ saveAnnotation
  \/ SaveResponse
  \/ SaveRejected
  \/ SaveMessageTimer
  \/ clearAllResults
  \/ ClearResponse
  \/ CountResponse
  \/ RoutePOST
  \/ OtherPOST
  \/ RouteGET
  \/ OtherGET
  \/ RouteDELETE
  \/ OtherDELETE
SpecSave == InitSave /\ [][NextSave]_vars

\* Polling: the status checks of the timer, the button and the effect, until
\* the dashboard is unmounted
NextPoll ==
  \/ PollTick
  \/ handleRefresh
  \/ StatusResponse
  \/ BackendUrlChanged
  \/ Unmount
  \/ (mounted /\ detectObjects)
SpecPoll == InitOf(PollScn) /\ [][NextPoll]_vars

\* Zooming: the buttons and the keyboard shortcuts between uploads
NextZoom ==
  \/ handleImageUpload
  \/ DecodedOnLoad
  \/ LoadedTimer
  \/ handleImageLoad
  \/ handleZoomIn
  \/ handleZoomOut
  \/ handleResetZoom
  \/ handleKeyDown
SpecZoom == InitOf(ZoomScn) /\ [][NextZoom]_vars

\* The results viewer popup on its own
NextPopup ==
  \/ Popup_handleZoomIn
  \/ Popup_handleZoomOut
  \/ Popup_handleResetZoom
  \/ Popup_handleWheel
  \/ Popup_handleMouseDown
  \/ Popup_handleMouseMove
  \/ Popup_handleMouseUp
SpecPopup == InitOf(FullScn) /\ [][NextPopup]_vars

\* The save-result route called with any JSON body, from an empty store
NextStore ==
  \/ OtherPOST
  \/ OtherGET
  \/ OtherDELETE
SpecStore == InitOf(StoreScn) /\ [][NextStore]_vars

\* The results table next to clients that save results
NextTable ==
  \/ OtherPOST
  \/ Table_fetchResults
  \/ Table_RouteGET
  \/ Table_FetchResponse
  \/ Table_toggleSelect
  \/ Table_toggleSelectAll
  \/ Table_deleteSelected
  \/ Table_RouteDELETE
  \/ Table_DeleteResponse
SpecTable == InitOf(TableScn) /\ [][NextTable]_vars

\* The route with a fallback path, called with any JSON body and restarted
NextVariant ==
  \/ VariantGET
  \/ VariantPOST
  \/ VariantDELETE
  \/ VariantRestart
SpecVariant == InitOf(StoreScn) /\ [][NextVariant]_vars

\* Paging through PDFs while detections are requested and files replaced
NextPages ==
  \/ handleImageUpload
  \/ PdfJsOnLoad
  \/ ConversionDone
  \/ ImageOnLoad
  \/ StatusResponse
  \/ detectObjects
  \/ DetectResponse
  \/ goToPreviousPage
  \/ goToNextPage
SpecPages == InitOf(PagesScn) /\ [][NextPages]_vars

\* Clicks and redraws while the image shown has no natural size
NextGuard ==
  \/ handleImageUpload
  \/ DecodedOnLoad
  \/ LoadedTimer
  \/ handleImageLoad
  \/ StatusResponse
  \/ detectObjects
  \/ DetectResponse
  \/ handleCanvasClick
  \/ handleRowClick
SpecGuard == InitOf(GuardScn) /\ [][NextGuard]_vars

\* The coordinate mapping over all dimensions and points within MaxDim
InitMap == SessionInit(FullScn) /\ mapper \in MapperInputs /\ resultFile = MissingFile
NextMap ==
  \/ MapDraw
  \/ MapClick
SpecMap == InitMap /\ [][NextMap]_vars

\* =============================================================== claims
\* C1: a detection response that arrives after a newer file was accepted is
\* ignored: the session never holds detections computed for a file other
\* than the one it currently holds.
C1_NoStaleDetections ==
  \A i \in 1..Len(boxes) : boxes[i].of = currentImageFile.name

\* C2: when no upload has anything left in flight or failed (and no detection
\* was ever requested), the page images, the PDF page shown, its natural size and the
\* total page count belong to the most recently uploaded file.
C2_PagesOfLatestUpload ==
  (conversions = << >> /\ imageLoads = << >> /\ error = "none"
     /\ backendStatus # "connected") =>
    /\ \A i \in 1..Len(pdfPages) : pdfPages[i].imageUrl.file = currentImageFile.name
    /\ currentImage.page >= 1 =>
         /\ currentImage.file = currentImageFile.name
         /\ imageNaturalSize.width = PDFScale * currentImageFile.dims[currentImage.page][1]
         /\ imageNaturalSize.height = PDFScale * currentImageFile.dims[currentImage.page][2]
    /\ pdfPages # << >> => totalPages = Len(currentImageFile.dims)

\* C3: a successful detection response leaves exactly the detections it
\* carries, all pages in response order, and none that an earlier response
\* brought: the previous set is replaced in full.
RECURSIVE Flatten(_)
Flatten(pages) ==
  IF pages = << >> THEN << >> ELSE Head(pages).detections \o Flatten(Tail(pages))
Carried(bs) ==
  [i \in 1..Len(bs) |->
    [class_id |-> bs[i].class_id, class_name |-> bs[i].class_name,
     confidence |-> bs[i].confidence, bbox |-> bs[i].bbox,
     page |-> bs[i].page, of |-> bs[i].of]]
C3_ReplacedInFull ==
  (lastOp.op = "DetectResponse" /\ lastOp.result.kind # "other") =>
    LET earlier == SubSeq(issued, 1, Len(issued) - Len(boxes))
    IN /\ Carried(boxes) = IF lastOp.result.kind = "pdf"
                           THEN Flatten(lastOp.result.pages)
                           ELSE lastOp.result.detections
       /\ \A i \in 1..Len(boxes) : boxes[i].id \notin Range(earlier)
C3_Witness ==
  /\ lastOp.op = "DetectResponse"
  /\ Len(issued) = 3
  /\ Ids(boxes) = <<2, 3>>
  /\ boxes[1].page = 1
  /\ boxes[2].page = 2

\* C4: every id generateId hands out differs from every id handed out
\* before it, discarded detections included; no two detections held share
\* an id.
C4_IdsNeverReused ==
  /\ \A i, j \in 1..Len(issued) : i # j => issued[i] # issued[j]
  /\ \A i, j \in 1..Len(boxes) : i # j => boxes[i].id # boxes[j].id
  /\ \A i \in 1..Len(boxes) : boxes[i].id \in Range(issued)
C4_Witness ==
  /\ Len(issued) = 3
  /\ Len(boxes) = 1
  /\ boxes[1].id = 3

\* C5: zooming, page navigation, selecting or deselecting a row, clicking
\* the canvas and redrawing leave every stored detection (bbox, class,
\* confidence, page) as it was.
C5_DetectionsUntouched ==
  [][\/ Carried(boxes') = Carried(boxes)
     \/ ~(\/ handleZoomIn \/ handleZoomOut \/ handleResetZoom
          \/ goToPreviousPage \/ goToNextPage
          \/ handleRowClick \/ handleCanvasClick
          \/ ImageOnLoad \/ handleImageLoad)]_vars
C5_Witness ==
  /\ Len(boxes) = 3
  /\ zoom = ZoomDefault + 2 * ZoomStep
  /\ currentPage = 2
  /\ selectedBoxId = boxes[2].id
  /\ canvas.painted
  /\ canvas.drawn = <<boxes[2].id, boxes[3].id>>

\* C6: a canvas click selects the first detection in list order (of the
\* current page in PDF mode) whose box, edges included, contains the click
\* point converted to natural space, and none if no box contains it.
InBox(b, pt) ==
  /\ pt[1][1] >= b.bbox[1] * pt[1][2]
  /\ pt[1][1] <= (b.bbox[1] + b.bbox[3]) * pt[1][2]
  /\ pt[2][1] >= b.bbox[2] * pt[2][2]
  /\ pt[2][1] <= (b.bbox[2] + b.bbox[4]) * pt[2][2]
FirstHit(pt) ==
  LET rel == IF isPDF THEN SelectSeq(boxes, LAMBDA b : b.page = currentPage) ELSE boxes
      hits == {i \in 1..Len(rel) : InBox(rel[i], pt)}
  IN IF hits = {} THEN NoBox
     ELSE rel[CHOOSE i \in hits : \A j \in hits : i <= j].id
C6_ClickSelectsFirstHit ==
  [][lastOp'.op = "handleCanvasClick" =>
       selectedBoxId' = FirstHit(ClickToNatural(ScreenOffset(lastOp'.p, lastOp'.shrink)))]_vars
C6_Witness ==
  /\ lastOp = [op |-> "handleCanvasClick", p |-> <<5, 3>>, shrink |-> 1]
  /\ zoom = ZoomDefault
  /\ ~isPDF
  /\ Len(boxes) = 2
  /\ selectedBoxId = boxes[1].id
  /\ InBox(boxes[1], <<RInt(5), RInt(3)>>)
  /\ InBox(boxes[2], <<RInt(5), RInt(3)>>)

C8_RoundTrip ==
  mapper.stage = "clicked" =>
    /\ REq(mapper.back[1], RInt(mapper.p[1]))
    /\ REq(mapper.back[2], RInt(mapper.p[2]))
C8_Witness ==
  /\ mapper.stage = "clicked"
  /\ mapper.nw = 3 /\ mapper.dw = 2
  /\ mapper.nh = 1 /\ mapper.dh = 3
  /\ mapper.p = <<2, 3>>
  /\ mapper.disp = <<Rat(4, 3), Rat(9, 1)>>

\* C9: a step that changes the current page (goToNextPage, goToPreviousPage)
\* leaves no detection selected.
C9_PageChangeClearsSelection ==
  [][(currentPage' # currentPage /\ (goToNextPage \/ goToPreviousPage))
     => selectedBoxId' = NoBox]_vars

\* C10: in PDF mode, once the canvas has been painted and no redraw is
\* pending, the detections drawn on it and those listed and counted in the
\* panel are exactly the detections whose page is the current page.
C10_OnlyCurrentPageShown ==
  (isPDF /\ canvas.painted /\ pendingDraws = {}) =>
    LET onPage == SelectSeq(boxes, LAMBDA b : b.page = currentPage)
    IN /\ canvas.drawn = Ids(onPage)
       /\ currentPageBoxes = onPage

\* C11: when every page of an N-page PDF renders, convertPDFToImages returns
\* N page images numbered 1..N in order, and the step of processFile that
\* receives them leaves the session ready with those N pages, total page
\* count N, current page 1 and no detections.
C11_AllPagesThenReady ==
  [][Len(conversions') < Len(conversions) =>
     \A i \in 1..Len(conversions) :
       ConversionDoneAt(i) =>
         LET file == conversions[i]
             N == Len(file.dims)
         IN /\ Len(pdfPages') = N
            /\ \A k \in 1..N :
                 /\ pdfPages'[k].pageNumber = k
                 /\ pdfPages'[k].imageUrl = [file |-> file.name, page |-> k]
            /\ totalPages' = N
            /\ currentPage' = 1
            /\ currentImage' = [file |-> file.name, page |-> 1]
            /\ imageLoaded'
            /\ ~isConvertingPDF'
            /\ boxes' = << >>]_vars

\* C12: when the render of page k fails, no partial page list is ever
\* exposed, the failing step leaves the page list and the current image as
\* they were (empty since the upload), an error is set and the converting
\* flag is false again.
C12_FailedConversionShowsNothing ==
  [][/\ (pdfPages' # << >> =>
           Len(pdfPages') = Len(FileByName(pdfPages'[1].imageUrl.file).dims))
     /\ Len(conversions') < Len(conversions) =>
          \A i \in 1..Len(conversions) : \A k \in 1..Len(conversions[i].dims) :
            ConversionFailedAt(i, k) =>
              /\ pdfPages' = pdfPages
              /\ currentImage' = currentImage
              /\ totalPages' = totalPages
              /\ error' = "convert"
              /\ ~isConvertingPDF']_vars
C12_Witness ==
  /\ error = "convert"
  /\ currentImageFile = FileB
  /\ conversions = << >>
  /\ pdfPages = << >>
  /\ currentImage = NoImage
  /\ ~isConvertingPDF

\* C13: a successful response that carries no detection leaves an empty
\* detection set and does not put the session in its error state (no error
\* message is set).
C13_NoDetectionsIsNoError ==
  (/\ lastOp.op = "DetectResponse"
   /\ lastOp.result.kind # "other"
   /\ (IF lastOp.result.kind = "pdf" THEN Flatten(lastOp.result.pages)
       ELSE lastOp.result.detections) = << >>)
  => (boxes = << >> /\ ~isDetecting /\ error = "none")

\* C14: an upload attempt of a file that is neither an image nor a PDF, or
\* that is larger than the maximum, leaves the loaded file, the page images,
\* the current image, the detections, the selection, the current page, the
\* total page count and the zoom as they were.
WrongType(name) == name = "d.txt"
TooLarge(name) == name = "e.png"
C14_RejectedUploadTouchesNothing ==
  [][(lastOp'.op = "upload" /\ (WrongType(lastOp'.file) \/ TooLarge(lastOp'.file))) =>
       /\ currentImageFile' = currentImageFile
       /\ pdfPages' = pdfPages
       /\ currentImage' = currentImage
       /\ boxes' = boxes
       /\ selectedBoxId' = selectedBoxId
       /\ currentPage' = currentPage
       /\ totalPages' = totalPages
       /\ zoom' = zoom
       /\ imageNaturalSize' = imageNaturalSize
       /\ isPDF' = isPDF
       /\ imageLoaded' = imageLoaded]_vars
C14_Witness ==
  /\ lastOp = [op |-> "upload", via |-> "picker", file |-> "e.png"]
  /\ error = "size"
  /\ currentImageFile = FileB
  /\ Len(pdfPages) = 2
  /\ currentPage = 2
  /\ Len(boxes) = 3
  /\ selectedBoxId = boxes[2].id
  /\ zoom = ZoomDefault + ZoomStep

\* C15: every upload attempt, by the file picker or by drag and drop, of a
\* file of the wrong type or over the maximum size sets an error message,
\* one for the wrong type and another for the size, and starts no request
\* and no load.
C15_RejectedWithMessage ==
  [][(lastOp'.op = "upload" /\ (WrongType(lastOp'.file) \/ TooLarge(lastOp'.file))) =>
       /\ error' = IF WrongType(lastOp'.file) THEN "type" ELSE "size"
       /\ detectReq' = detectReq
       /\ conversions' = conversions
       /\ imageLoads' = imageLoads
       /\ polls' = polls]_vars

\* the session is Ready or Annotated: a file is held and currentImage is set,
\* which processFile does once the image is decoded or the PDF rasterized
Loaded == currentImageFile # NoFile /\ currentImage # NoImage

\* C16: a press of Detect sends a request only when a file has been loaded
\* successfully and the backend is connected; in every other state it sends
\* nothing, leaves the detections unchanged and sets an error message.
C16_DetectOnlyWhenLoaded ==
  [][lastOp'.op = "detect" =>
       IF Loaded /\ backendStatus = "connected"
       THEN detectReq' = currentImageFile
       ELSE detectReq' = detectReq /\ boxes' = boxes /\ error' # "none"]_vars

\* two imageNames that differ at most in the case of their letters
SameNameIgnoringCase(a, b) ==
  a = b \/ {a, b} = {"a.png", "A.PNG"}

C18_ConflictKeepsSession ==
  [][(lastOp'.op = "saved" /\ lastOp'.status = 409 /\ lastOp'.error = "duplicate") =>
       /\ saveMessage' = "duplicate"
       /\ saveMessage' # "failed"
       /\ boxes' = boxes
       /\ selectedBoxId' = selectedBoxId
       /\ currentImageFile' = currentImageFile
       /\ currentImage' = currentImage
       /\ pdfPages' = pdfPages
       /\ savedResultsCount' = savedResultsCount
       /\ labeledImages' = labeledImages]_vars
C18_Witness ==
  /\ lastOp = [op |-> "saved", status |-> 409, error |-> "duplicate"]
  /\ saveMessage = "duplicate"
  /\ currentImageFile = FileA
  /\ Len(boxes) = 2
  /\ labeledImages = << >>
  /\ Len(resultFile.results) = 1
  /\ savedResultsCount = 0

\* C19: a press of Save sends a request only when an image is loaded and there
\* is at least one detection; otherwise it sends nothing, changes nothing of the
\* session but the save message, and reports that there is nothing to save.
C19_SaveOnlyWhenAnnotated ==
  [][lastOp'.op = "save" =>
       IF Loaded /\ Len(boxes) > 0
       THEN saveReq'.stage = "sent" /\ saveReq'.imageName = currentImageFile.name
       ELSE /\ saveMessage' = "nodata"
            /\ UNCHANGED <<reactVars, idCounter, asyncVars, domVars, isSaving,
                           savedResultsCount, labeledImages, saveReq, clearReq,
                           countReq, resultFile>>]_vars
C19_Witness ==
  /\ lastOp = [op |-> "save"]
  /\ saveMessage = "nodata"
  /\ currentImageFile = FileA
  /\ boxes = << >>
  /\ saveReq = NoReq

\* C20: a successful DELETE leaves no record: the GET that follows it returns
\* an empty list, and the POST that follows it is not answered with the
\* duplicate conflict and is saved as the only record, whatever was stored.
C20_DeleteClearsAll ==
  [][api'.seq # api.seq =>
       /\ (api'.method = "DELETE" /\ api'.status = 200) => resultFile' = JsonFile(<< >>)
       /\ (api.method = "DELETE" /\ api.status = 200 /\ api'.method = "GET") =>
            api'.results = << >>
       /\ (api.method = "DELETE" /\ api.status = 200 /\ api'.method = "POST") =>
            /\ api'.status # 409
            /\ api'.wrote => /\ api'.status = 200
                             /\ Len(resultFile'.results) = 1
                             /\ resultFile'.results[1].imageName = api'.imageName]_vars
C20_Witness ==
  /\ api.method = "POST"
  /\ api.prev = "DELETE"
  /\ api.imageName \in api.wiped
  /\ api.status = 200

\* C21: the status poll runs on one 30-second timer while the dashboard is
\* mounted: there is exactly one armed timer while it is mounted, a change of
\* backendUrl included, none once it is unmounted, and no status check is
\* started by the timer after the unmount.
C21_PollOnlyWhileMounted ==
  [][/\ pollTimer' = (IF mounted' THEN 1 ELSE 0)
     /\ (lastOp'.op = "poll" /\ lastOp'.by = "timer") => (mounted /\ pollTimer = 1)]_vars
C21_Witness ==
  /\ ~mounted
  /\ backendUrl = 2
  /\ pollTimer = 0
  /\ backendStatus = "connected"

\* C22: a status poll that fails sets the backend status to disconnected and
\* leaves the loaded file, the page images, the detections, the selection, the
\* current page and the zoom as they were; while the status is disconnected a
\* press of Detect sends nothing.
C22_FailedPollKeepsAnnotations ==
  [][/\ (lastOp'.op = "status" /\ ~lastOp'.ok) =>
          /\ backendStatus' = "disconnected"
          /\ currentImageFile' = currentImageFile
          /\ currentImage' = currentImage
          /\ pdfPages' = pdfPages
          /\ boxes' = boxes
          /\ selectedBoxId' = selectedBoxId
          /\ currentPage' = currentPage
          /\ totalPages' = totalPages
          /\ zoom' = zoom
     /\ (lastOp'.op = "detect" /\ backendStatus = "disconnected") =>
          detectReq' = detectReq /\ isDetecting' = isDetecting]_vars
C22_Witness ==
  /\ lastOp = [op |-> "status", ok |-> FALSE]
  /\ backendStatus = "disconnected"
  /\ currentImageFile = FileB
  /\ Len(pdfPages) = 2
  /\ Len(boxes) = 3
  /\ selectedBoxId = boxes[2].id
  /\ currentPage = 2
  /\ zoom = ZoomDefault + ZoomStep

\* C23: when a detection request fails (no answer, a non-2xx answer, or a body
\* of unexpected format), the loaded file, the page images and the detections
\* held before it are retained, the detecting flag is false and an error
\* message is set.
C23_FailedDetectionKeepsSession ==
  [][(\/ lastOp'.op = "DetectFailed"
      \/ (lastOp'.op = "DetectResponse" /\ lastOp'.result.kind = "other")) =>
       /\ currentImageFile' = currentImageFile
       /\ currentImage' = currentImage
       /\ pdfPages' = pdfPages
       /\ boxes' = boxes
       /\ ~isDetecting'
       /\ error' # "none"]_vars
C23_Witness ==
  /\ lastOp = [op |-> "DetectFailed"]
  /\ error = "detect"
  /\ currentImageFile = FileB
  /\ Len(pdfPages) = 2
  /\ Len(boxes) = 2

\* C24: after any sequence of zoom-in, zoom-out and reset (buttons or keyboard)
\* and uploads, the zoom is a whole number of 0.25 steps between 0.25 and 3.0,
\* and a reset sets it to 1.
C24_ZoomInRange ==
  [][/\ zoom' \in 1..12      \* zoom is counted in steps of 0.25: 0.25 to 3.0
     /\ (lastOp'.op = "zoom" /\ lastOp'.how = "reset") => zoom' = 4]_vars
C24_Witness ==
  /\ lastOp = [op |-> "zoom", how |-> "in"]
  /\ zoom = 12
  /\ uploads = 2

\* C25: in the results viewer popup, after any sequence of zoom buttons,
\* Ctrl/Cmd wheel zooms and resets, the zoom is between 0.25 and 5.0 and a
\* multiple of 0.25, and a reset restores zoom 1 and pan (0, 0).
C25_PopupZoomInSteps ==
  [][/\ popup'.zoom \in 5..100       \* in steps of 0.05
     /\ popup'.zoom % 5 = 0
     /\ popup'.op = "reset" => (popup'.zoom = 20 /\ popup'.pan = <<0, 0>>)]_vars

\* C26: once a PDF has been rasterized into N pages, the total page count stays
\* N as long as that file and its page images are held: no step that keeps
\* them, a detection response included, changes it.
C26_PageCountFixed ==
  [][(/\ pdfPages # << >>
      /\ totalPages = Len(pdfPages)
      /\ pdfPages' = pdfPages
      /\ currentImageFile' = currentImageFile) =>
       totalPages' = totalPages]_vars

\* number of detections of bs on page k
CountOnPage(bs, k) == Cardinality({i \in 1..Len(bs) : bs[i].page = k})
\* sum over the pages 1..n of CountOnPage
SumOverPages(bs, n) ==
  LET F[k \in 0..n] == IF k = 0 THEN 0 ELSE F[k - 1] + CountOnPage(bs, k)
  IN F[n]

\* C27: in PDF mode every detection belongs to exactly one of the pages
\* 1..totalPages that can be displayed: the per-page sets are disjoint, their
\* union is the whole detection set and the per-page counts sum to the total.
C27_PartitionedByPage ==
  isPDF =>
    /\ \A i \in 1..Len(boxes) : boxes[i].page \in 1..totalPages
    /\ SumOverPages(boxes, totalPages) = Len(boxes)
    /\ \A i \in 1..Len(boxes) :
         \E k \in 1..totalPages :
           /\ boxes[i] \in Range(PageBoxes(boxes, k))
           /\ \A j \in 1..totalPages :
                boxes[i] \in Range(PageBoxes(boxes, j)) => j = k

\* C28: in PDF mode, while the page images of the rasterized file are held,
\* the natural size kept by the session is the width and height of the page
\* image of the current page, whatever navigations and detection responses
\* came before.
C28_NaturalSizeOfCurrentPage ==
  (/\ isPDF
   /\ FindPage(pdfPages, currentPage) # 0
   /\ currentImage = pdfPages[FindPage(pdfPages, currentPage)].imageUrl) =>
    /\ imageNaturalSize.width = pdfPages[FindPage(pdfPages, currentPage)].width
    /\ imageNaturalSize.height = pdfPages[FindPage(pdfPages, currentPage)].height

\* reference size handleCanvasClick divides into the click scale
RefSize ==
  LET i == IF isPDF THEN FindPage(pdfPages, currentPage) ELSE 0
  IN IF i # 0 THEN <<pdfPages[i].width, pdfPages[i].height>>
     ELSE <<imageNaturalSize.width, imageNaturalSize.height>>

\* C29: while the natural size in use has a zero width or height, a redraw
\* paints nothing on the canvas, and a click on the canvas whose reference
\* size or buffer size has a zero leaves the selection as it was.
C29_NotReadyIsSkipped ==
  [][/\ (~isPDF' /\ (imageNaturalSize'.width = 0 \/ imageNaturalSize'.height = 0)
          /\ ~canvas.painted) => ~canvas'.painted
     /\ (/\ lastOp'.op = "handleCanvasClick"
         /\ (RefSize[1] = 0 \/ RefSize[2] = 0 \/ canvas.width = 0 \/ canvas.height = 0))
        => selectedBoxId' = selectedBoxId]_vars

\* the ids of the detections bs that a redraw of page k draws (all of them
\* outside PDF mode, k = 0)
IdsShownOn(bs, k) ==
  LET F[i \in 0..Len(bs)] ==
        IF i = 0 THEN << >>
        ELSE IF k = 0 \/ bs[i].page = k THEN Append(F[i - 1], bs[i].id) ELSE F[i - 1]
  IN F[Len(bs)]
\* the detection that carries the 3px border
BorderOn(sel, ids) == IF \E i \in 1..Len(ids) : ids[i] = sel THEN sel ELSE NoBox

\* C30: a redraw is a function of its inputs and starts from a cleared
\* surface: a redraw is started with the page shown, that page's detections
\* and the selected id, and the paint that completes it leaves on the canvas
\* exactly those detections, with the 3px border on the one whose id is the
\* selected id, whatever the canvas held before; painting the same inputs over
\* that result gives the same canvas.
C30_RedrawFromInputsOnly ==
  [][/\ \A d \in pendingDraws' \ pendingDraws :
          /\ d.url = pdfPages'[FindPage(pdfPages', currentPage')].imageUrl
          /\ d.drawn = IdsShownOn(boxes', currentPage')
          /\ d.sel = selectedBoxId'
     /\ (canvas' # canvas /\ canvas'.painted) =>
          \/ /\ ~isPDF'
             /\ canvas'.img = currentImage'
             /\ canvas'.drawn = IdsShownOn(boxes', 0)
             /\ canvas'.sel = BorderOn(selectedBoxId', canvas'.drawn)
          \/ \E d \in pendingDraws \ pendingDraws' :
               /\ canvas'.img = d.url
               /\ canvas'.drawn = d.drawn
               /\ canvas'.sel = BorderOn(d.sel, d.drawn)]_vars
C30_Witness ==
  /\ canvas.painted
  /\ Len(canvas.drawn) = 2
  /\ canvas.sel # NoBox
  /\ canvas.img.page = 2

\* C31: in PDF mode, once every page-image load started by a redraw has run
\* its callback, the canvas shows the image of the current page, the
\* detections of that page and the border on the selected one, whichever
\* callback ran last.
C31_LatestRedrawWins ==
  (/\ isPDF
   /\ canvas.painted
   /\ pendingDraws = {}
   /\ FindPage(pdfPages, currentPage) # 0) =>
    /\ canvas.img = pdfPages[FindPage(pdfPages, currentPage)].imageUrl
    /\ canvas.drawn = IdsShownOn(boxes, currentPage)
    /\ canvas.sel = BorderOn(selectedBoxId, canvas.drawn)

\* C32: the selected id is none or the id of a detection the session holds
\* and, in PDF mode, one on the current page.
C32_SelectionIsLive ==
  \/ selectedBoxId = NoBox
  \/ \E i \in 1..Len(boxes) :
       /\ boxes[i].id = selectedBoxId
       /\ isPDF => boxes[i].page = currentPage

\* C33: in PDF mode, while page images are held and an image is displayed,
\* the current page is in 1..N for the N page images, a page image carries
\* that page number, and the displayed image is the image of that page.
C33_CurrentPageHasImage ==
  (isPDF /\ pdfPages # << >> /\ currentImage # NoImage) =>
    /\ currentPage \in 1..Len(pdfPages)
    /\ FindPage(pdfPages, currentPage) # 0
    /\ currentImage = pdfPages[FindPage(pdfPages, currentPage)].imageUrl

\* C34: an upload of a PDF refused because PDF.js has not loaded yet keeps
\* the file, the image, the page images and the detections the session
\* held, and a request started afterwards carries a file that was loaded.
C34_RefusedPdfKeepsSession ==
  [][/\ (uploads' # uploads /\ error' = "pdfjs") =>
          /\ currentImageFile' = currentImageFile
          /\ currentImage' = currentImage
          /\ pdfPages' = pdfPages
          /\ boxes' = boxes
     /\ (detectReq = NoFile /\ detectReq' # NoFile) =>
          (currentImage # NoImage /\ detectReq' = currentImageFile)]_vars

\* C35: at most one detection request is in flight: the detecting flag is
\* true exactly while a request is in flight, a request in flight is never
\* replaced by another one (also not after a new file was uploaded), and
\* when it ends, however it ends, the flag is false again.
C35_OneRequestInFlight ==
  [][/\ isDetecting' <=> (detectReq' # NoFile)
     /\ detectReq # NoFile =>
          \/ detectReq' = detectReq
          \/ detectReq' = NoFile /\ ~isDetecting']_vars
C35_Witness ==
  /\ isDetecting
  /\ detectReq # NoFile
  /\ currentImageFile # detectReq

\* C38: in the base route, whatever bodies were posted before (bodies without
\* imageName included), a POST with an imageName that matches no stored
\* record, made while the file can be written, is saved: it is not answered
\* with the server error.
C38_NoPoisonRecord ==
  [][(/\ api'.seq # api.seq
      /\ api'.method = "POST"
      /\ api'.imageName # NoName
      /\ api'.wrote
      /\ \A i \in 1..Len(resultFile.results) :
           ~SameNameIgnoringCase(resultFile.results[i].imageName, api'.imageName)) =>
       api'.status = 200]_vars

\* C36: whatever POSTs and DELETEs were handled, also while a POST of the
\* dashboard with the same name was in flight, no two records of the store
\* have imageNames that are equal ignoring case.
C36_NoTwoSameNames ==
  \A i, j \in 1..Len(resultFile.results) :
    i # j => ~SameNameIgnoringCase(resultFile.results[i].imageName,
                                   resultFile.results[j].imageName)
C36_Witness ==
  /\ Len(resultFile.results) = 2
  /\ api.method = "POST" /\ api.by = "other" /\ api.status = 409
  /\ saveReq.stage = "sent"
  /\ SameNameIgnoringCase(api.imageName, saveReq.imageName)

\* C37 (on the base route): a POST answered with success leaves the records the store held, in
\* their order, followed by exactly one new record with the posted name,
\* and (seen by the dashboard) returns the new length as totalResults; a POST
\* answered in any other way leaves the records of the store as they were.
C37_PostAppendsOne ==
  [][(api'.seq # api.seq /\ api'.method = "POST") =>
       IF api'.status = 200
       THEN /\ Len(resultFile'.results) = Len(resultFile.results) + 1
            /\ SubSeq(resultFile'.results, 1, Len(resultFile.results)) = resultFile.results
            /\ resultFile'.results[Len(resultFile'.results)].imageName = api'.imageName
            /\ api'.by = "dashboard" => saveReq'.totalResults = Len(resultFile'.results)
       ELSE resultFile'.results = resultFile.results]_vars
C37_Witness ==
  /\ api.method = "POST" /\ api.by = "dashboard" /\ api.status = 200
  /\ saveReq.stage = "answered"
  /\ saveReq.totalResults = 2
  /\ Len(resultFile.results) = 2
  /\ resultFile.results[2].imageName = "a.png"

\* the records a result file holds
RecordsOf(file) == file.results

\* C39: reading the store loses no saved record: a GET, and a POST that is
\* not answered with success (it got no further than its read step or wrote
\* nothing), leave the records of the preferred and of the fallback file as
\* they were, also when the read fails and the route switches to the
\* fallback path.
C39_ReadLosesNothing ==
  [][(/\ variant'.calls # variant.calls
      /\ \/ variant'.call.method = "GET"
         \/ variant'.call.method = "POST" /\ variant'.call.status # 200) =>
       /\ RecordsOf(variant'.preferred) = RecordsOf(variant.preferred)
       /\ RecordsOf(variant'.fallback) = RecordsOf(variant.fallback)]_vars

C37_VariantPostAppendsOne ==
  [][(variant'.calls # variant.calls /\ variant'.call.method = "POST") =>
       LET before == RecordsOf(FileAt(variant))
           after == RecordsOf(FileAt(variant'))
       IN IF variant'.call.status = 200
          THEN /\ Len(after) = Len(before) + 1
               /\ SubSeq(after, 1, Len(before)) = before
               /\ after[Len(after)].imageName = variant'.call.imageName
               /\ variant'.call.totalResults = Len(after)
          ELSE /\ RecordsOf(variant'.preferred) = RecordsOf(variant.preferred)
               /\ RecordsOf(variant'.fallback) = RecordsOf(variant.fallback)]_vars

====
